---- MODULE Spec2Model ----
(***************************************************************************)
(* What-If scenario simulation: the What-If page of the dashboard          *)
(* (frontend/src/components/AttributionPage.tsx, WhatIfScenariosPage) and   *)
(* the simulation engine it calls over /api/what-if/*.                      *)
(*                                                                         *)
(* The engine is the Python service of the repository (commerce_app); its   *)
(* operators below follow spec.md sections 4.1-4.5.  Real numbers are exact *)
(* rationals [n, d] in lowest terms with d > 0.                             *)
(***************************************************************************)
EXTENDS Integers, Sequences, FiniteSets, TLC

VARIABLES
    \* Price Elasticity Model, applied as a pure function
    pmBase,        \* baseline snapshot the price model is applied to
    pmElasticity,  \* price elasticity slider value (hundredths)
    pmPreview,     \* PricePreview of the latest GetPricePreview call, or Null
    pmPrev,        \* PricePreview of the call before it, or Null
    pmProbe,       \* the price model evaluated at the breakeven elasticity, or Null
    \* Monte Carlo Sampler and Statistics Reducer, applied as a pure function
    mcDist,        \* adjusted daily distribution and forecast horizon
    mcTrials,      \* revenue total of each trial, in sampling order
    mcResult,      \* the reduced results, or Null
    \* What-If page (WhatIfScenariosPage) and the service behind it
    baseline,          \* useState: BaselineMetrics or Null
    presets,           \* useState: the loaded presets
    isLoading,         \* useState
    basePeriodDays,    \* useState: the selected Base Period option
    baselineInFlight,  \* fetchBaseline calls awaiting their response, per days
    presetsInFlight,   \* fetchPresets calls awaiting their response
    history,           \* the shop's daily rows, by age in days
    lastBaselineReply, \* the baseline response handled last, or Null
    \* What-If page: the scenario controls and runSimulation
    revenueGrowth,         \* useState, percent
    aovChange,             \* useState, percent
    orderVolumeChange,     \* useState, percent
    cogsChange,            \* useState, percent
    conversionRateChange,  \* useState, percent
    priceMultiplier,       \* useState, 100 = 1.0x
    priceElasticity,       \* useState, -150 = -1.5
    forecastDays,          \* useState: the selected Forecast Period option
    numSimulations,        \* useState: the selected Simulations option
    simulation,            \* useState: SimulationResults or Null
    isSimulating,          \* useState
    simulateInFlight,      \* body of the simulate request awaiting its response, or Null
    origin,                \* where the slider values come from: construction, a reset,
                           \* a preset, or an edit since
    sentOrigin,            \* origin when runSimulation was called last
    simulationAtCall,      \* simulation when runSimulation was called last
    lastOutcome,           \* how the last runSimulation ended
    edits,                 \* changes made to the controls so far
    \* What-If page: the debounced price preview
    debounceTimers,        \* the pending timers of the debounce effect
    sinceChange,           \* ms since price multiplier or elasticity changed, capped
    previewRequests,       \* the preview requests issued so far
    previewInFlight,       \* the requests among them that await their response
    pricePreview,          \* useState: PricePreview or Null
    isLoadingPreview,      \* useState
    \* session token of the API client (lib/api.ts)
    tokenFetchPromise,     \* module variable: the fetch callers wait for, or Null
    fetches,               \* the token fetches started so far
    calls,                 \* the getValidToken calls
    urlToken,              \* the id_token of the page URL
    idToken,               \* the id_token parameter as written in the URL, or Null
    clock,                 \* Date.now(), in ms
    urlReturn,             \* the URL token getValidToken returned last, or Null
    \* App: sync-status polling
    hasShopParam,          \* whether the page URL names a shop
    syncStatus,            \* useState: status of the SyncStatus observed last, or Null
    appIsLoading,          \* useState isLoading of AppContent
    showBanner,            \* useState
    prevStatusRef,         \* useRef: the status observed before, or Null
    sessions,              \* the runs of the polling effect
    serverStatus,          \* the sync status the service reports
    windowShopify,         \* whether window.shopify is set
    observedHistory,       \* history: the first status observed and all observed
    shop,                  \* useState of AppContent: the shop, or Null
    subscriptionStatus,    \* useState of AppContent, or Null
    selectedTab,           \* useState of AppContent
    \* AuthGate
    isReady,               \* useState of AuthGate
    hasToken,              \* useState of AuthGate
    authChecks,            \* the /auth/check requests of the runs of the effect
    hasHostParam,          \* whether the page URL carries a host
    hasWindowTop,          \* whether window.top is set
    topLocation,           \* href assigned to window.top.location, or Null
    ownLocation,           \* href assigned to window.location, or Null
    \* the sensitivity list of the What-If page, rendered as a pure function
    rkSensitivity,         \* entries of simulation.sensitivity, in the order of its keys
    rkRanking              \* the entries as the list shows them, or Null

priceVars == <<pmBase, pmElasticity, pmPreview, pmPrev, pmProbe>>
statsVars == <<mcDist, mcTrials, mcResult>>
pageVars == <<baseline, presets, isLoading, basePeriodDays, baselineInFlight,
              presetsInFlight, history, lastBaselineReply>>
sliderVars == <<revenueGrowth, aovChange, orderVolumeChange, cogsChange,
                conversionRateChange, priceMultiplier, priceElasticity>>
previewVars == <<debounceTimers, sinceChange, previewRequests, previewInFlight,
                 pricePreview, isLoadingPreview>>
scenarioVars == <<sliderVars, forecastDays, numSimulations, simulation,
                  isSimulating, simulateInFlight, origin, sentOrigin,
                  simulationAtCall, lastOutcome, edits, previewVars>>
urlVars == <<idToken, clock, urlReturn>>
tokenVars == <<tokenFetchPromise, fetches, calls, urlToken, urlVars>>
pollVars == <<hasShopParam, syncStatus, appIsLoading, showBanner, prevStatusRef,
              sessions, serverStatus, windowShopify, observedHistory>>
paywallVars == <<shop, subscriptionStatus, selectedTab>>
gateVars == <<isReady, hasToken, authChecks, hasHostParam, hasWindowTop, topLocation,
              ownLocation>>
syncVars == <<pollVars, paywallVars, gateVars>>
rankVars == <<rkSensitivity, rkRanking>>

vars == <<pmBase, pmElasticity, pmPreview, pmPrev, pmProbe,
          mcDist, mcTrials, mcResult,
          baseline, presets, isLoading, basePeriodDays, baselineInFlight,
          presetsInFlight, history, lastBaselineReply,
          revenueGrowth, aovChange, orderVolumeChange, cogsChange,
          conversionRateChange, priceMultiplier, priceElasticity,
          forecastDays, numSimulations, simulation, isSimulating,
          simulateInFlight, origin, sentOrigin, simulationAtCall, lastOutcome,
          edits,
          debounceTimers, sinceChange, previewRequests, previewInFlight,
          pricePreview, isLoadingPreview,
          tokenFetchPromise, fetches, calls, urlToken,
          idToken, clock, urlReturn,
          hasShopParam, syncStatus, appIsLoading, showBanner, prevStatusRef,
          sessions, serverStatus, windowShopify, observedHistory,
          shop, subscriptionStatus, selectedTab,
          isReady, hasToken, authChecks, hasHostParam, hasWindowTop, topLocation,
          ownLocation,
          rkSensitivity, rkRanking>>

Null == [null |-> TRUE]

(***************************************************************************)
(* Bounds of the model                                                     *)
(***************************************************************************)
MaxBaseOrders == 2
MaxBaseAov == 1
MaxUnitCost == 1
MaxTrials == 3
MaxForecastDays == 1
MaxDailyOrders == 1
MaxInFlight == 3

(***************************************************************************)
(* Exact rational arithmetic                                               *)
(***************************************************************************)
Abs(i) == IF i < 0 THEN -i ELSE i

RECURSIVE Gcd(_, _)
Gcd(a, b) == IF b = 0 THEN a ELSE Gcd(b, a % b)

Rat(n, d) ==
    LET g == Gcd(Abs(n), Abs(d))
        s == IF d < 0 THEN -1 ELSE 1
    IN  [n |-> s * (n \div g), d |-> s * (d \div g)]

RInt(i) == [n |-> i, d |-> 1]
RZero == RInt(0)
ROne == RInt(1)
RAdd(a, b) == Rat(a.n * b.d + b.n * a.d, a.d * b.d)
RSub(a, b) == Rat(a.n * b.d - b.n * a.d, a.d * b.d)
RMul(a, b) == Rat(a.n * b.n, a.d * b.d)
RDiv(a, b) == Rat(a.n * b.d, a.d * b.n)
RLt(a, b) == a.n * b.d < b.n * a.d
RLe(a, b) == a.n * b.d <= b.n * a.d
RMax(a, b) == IF RLt(a, b) THEN b ELSE a

(***************************************************************************)
(* JavaScript numbers: IEEE 754 binary64, round to nearest, ties to even.   *)
(* A number is [s, m, e]: sign s, the 53-bit mantissa m and the exponent e  *)
(* of its last bit, so that its value is s * m * 2^e; 0 has the empty       *)
(* mantissa.  A mantissa is kept as limbs of 16 bits, most significant      *)
(* first, which keeps every step within small integers.                     *)
(***************************************************************************)
MantissaBits == 53
LimbBits == 16
LimbBase == 65536

Zeros(k) == [i \in 1..k |-> 0]

\* b without its leading zeros
StripZeros(b) ==
    LET ones == {i \in 1..Len(b) : b[i] = 1}
    IN  IF ones = {} THEN <<>>
        ELSE SubSeq(b, CHOOSE i \in ones : \A j \in ones : i <= j, Len(b))

\* the bits of a natural number below 2^31
BitsOf(n) == StripZeros([i \in 1..31 |-> (n \div 2^(31 - i)) % 2])

\* the value of at most LimbBits bits
RECURSIVE LimbValue(_, _)
LimbValue(c, i) == IF i = 0 THEN 0 ELSE 2 * LimbValue(c, i - 1) + c[i]

\* a bit string as limbs of LimbBits bits, most significant first
ToLimbs(b) ==
    LET pad == (LimbBits - (Len(b) % LimbBits)) % LimbBits
        bp == Zeros(pad) \o b
    IN  [k \in 1..(Len(bp) \div LimbBits) |->
            LimbValue(SubSeq(bp, LimbBits * (k - 1) + 1, LimbBits * k), LimbBits)]

FromLimbs(ls) ==
    [i \in 1..(LimbBits * Len(ls)) |->
        (ls[((i - 1) \div LimbBits) + 1] \div 2^(LimbBits - 1 - ((i - 1) % LimbBits))) % 2]

\* limbs 1..i of ls times k, plus carry
RECURSIVE MulLimbs(_, _, _, _)
MulLimbs(ls, k, i, carry) ==
    IF i = 0 THEN <<carry>>
    ELSE LET t == ls[i] * k + carry
         IN  Append(MulLimbs(ls, k, i - 1, t \div LimbBase), t % LimbBase)

\* b * k for 0 < k < LimbBase
MulSmall(b, k) ==
    LET ls == ToLimbs(b)
    IN  StripZeros(FromLimbs(MulLimbs(ls, k, Len(ls), 0)))

Increment(b) ==
    LET ls == ToLimbs(b)
    IN  StripZeros(FromLimbs(MulLimbs(ls, 1, Len(ls), 1)))

\* long division of limbs 1..i of ls by d: quotient limbs q and remainder r
RECURSIVE DivLimbs(_, _, _)
DivLimbs(ls, d, i) ==
    IF i = 0 THEN [q |-> <<>>, r |-> 0]
    ELSE LET p == DivLimbs(ls, d, i - 1)
             t == p.r * LimbBase + ls[i]
         IN  [q |-> Append(p.q, t \div d), r |-> t % d]

\* b divided by d for 0 < d < LimbBase: quotient bits q and remainder r
DivSmall(b, d) ==
    LET ls == ToLimbs(b)
        p == DivLimbs(ls, d, Len(ls))
    IN  [q |-> StripZeros(FromLimbs(p.q)), r |-> p.r]

FZero == [s |-> 1, m |-> <<>>, e |-> 0]

\* the binary64 number nearest to s * (b + f) * 2^e, where 0 <= f < 1 and
\* sticky tells whether f > 0; b has no leading zero
RoundToDouble(s, b, e, sticky) ==
    LET n == Len(b)
    IN  IF n = 0 THEN FZero
        ELSE IF n <= MantissaBits
        THEN [s |-> s, m |-> ToLimbs(b \o Zeros(MantissaBits - n)),
              e |-> e - (MantissaBits - n)]
        ELSE LET keep == SubSeq(b, 1, MantissaBits)
                 guard == b[MantissaBits + 1]
                 rest == sticky \/ \E i \in (MantissaBits + 2)..n : b[i] = 1
                 up == guard = 1 /\ (rest \/ keep[MantissaBits] = 1)
                 e1 == e + (n - MantissaBits)
                 inc == Increment(keep)
             IN  IF ~up THEN [s |-> s, m |-> ToLimbs(keep), e |-> e1]
                 ELSE IF Len(inc) > MantissaBits
                 THEN [s |-> s, m |-> ToLimbs(SubSeq(inc, 1, MantissaBits)), e |-> e1 + 1]
                 ELSE [s |-> s, m |-> ToLimbs(inc), e |-> e1]

\* the number an integer literal or an integer slider value denotes
FromInt(i) == RoundToDouble(IF i < 0 THEN -1 ELSE 1, BitsOf(Abs(i)), 0, FALSE)

\* the number JSON.parse reads from the decimal k / d (d a power of ten)
FromDecimal(k, d) ==
    LET p == DivSmall(BitsOf(Abs(k)) \o Zeros(70), d)
    IN  RoundToDouble(IF k < 0 THEN -1 ELSE 1, p.q, -70, p.r # 0)

\* x * k and x / k for a positive integer k
FMul(x, k) == RoundToDouble(x.s, MulSmall(StripZeros(FromLimbs(x.m)), k), x.e, FALSE)

FDiv(x, k) ==
    LET p == DivSmall(StripZeros(FromLimbs(x.m)) \o Zeros(10), k)
    IN  RoundToDouble(x.s, p.q, x.e - 10, p.r # 0)

(***************************************************************************)
(* Each component is exercised by a specification of its own; the          *)
(* variables of the other components then rest at these values.            *)
(***************************************************************************)
InitPriceIdle ==
    /\ pmBase = [orders |-> RZero, aov |-> ROne, unit_cost |-> RZero]
    /\ pmElasticity = -150
    /\ pmPreview = Null
    /\ pmPrev = Null
    /\ pmProbe = Null

InitStatsIdle ==
    /\ mcDist = [mean |-> RZero, sd |-> RZero, cogs_rate |-> RZero, forecast_days |-> 1]
    /\ mcTrials = <<>>
    /\ mcResult = Null

\* the Base Period options of the page and the ages (in days) at which the
\* shop's history is sampled: one inside every window, one inside 60 days and
\* more, one inside 365 days only
BasePeriodOptions == {"30", "60", "90", "180", "365"}
SampleAges == {10, 50, 200}

InitPageIdle ==
    /\ baseline = Null
    /\ presets = <<>>
    /\ isLoading = TRUE
    /\ basePeriodDays = "90"
    /\ baselineInFlight = [d \in BasePeriodOptions |-> 0]
    /\ presetsInFlight = 0
    /\ history = [a \in SampleAges |-> Null]
    /\ lastBaselineReply = Null

\* the scenario controls as constructed: useState(0), useState(100),
\* useState(-150), useState('30'), useState('10000'), no simulation
InitControls ==
    /\ revenueGrowth = FromInt(0)
    /\ aovChange = FromInt(0)
    /\ orderVolumeChange = FromInt(0)
    /\ cogsChange = FromInt(0)
    /\ conversionRateChange = FromInt(0)
    /\ priceMultiplier = FromInt(100)
    /\ priceElasticity = FromInt(-150)
    /\ forecastDays = "30"
    /\ numSimulations = "10000"
    /\ simulation = Null
    /\ isSimulating = FALSE
    /\ simulateInFlight = Null
    /\ origin = [kind |-> "initial"]
    /\ sentOrigin = Null
    /\ simulationAtCall = Null
    /\ lastOutcome = "none"
    /\ edits = 0

InitPreviewIdle ==
    /\ debounceTimers = {}
    /\ sinceChange = 0
    /\ previewRequests = <<>>
    /\ previewInFlight = {}
    /\ pricePreview = Null
    /\ isLoadingPreview = FALSE

InitScenarioIdle == InitControls /\ InitPreviewIdle

InitUrlIdle ==
    /\ idToken = Null
    /\ clock = 0
    /\ urlReturn = Null

InitTokenIdle ==
    /\ tokenFetchPromise = Null
    /\ fetches = <<>>
    /\ calls = <<>>
    /\ urlToken = "absent"
    /\ InitUrlIdle

InitPollIdle ==
    /\ hasShopParam = FALSE
    /\ syncStatus = Null
    /\ appIsLoading = TRUE
    /\ showBanner = FALSE
    /\ prevStatusRef = Null
    /\ sessions = <<>>
    /\ serverStatus = "not_found"
    /\ windowShopify = FALSE
    /\ observedHistory = [first |-> Null, seen |-> {}]
    /\ shop = Null
    /\ subscriptionStatus = Null
    /\ selectedTab = 0

InitGateIdle ==
    /\ isReady = FALSE
    /\ hasToken = FALSE
    /\ authChecks = <<>>
    /\ hasHostParam = FALSE
    /\ hasWindowTop = FALSE
    /\ topLocation = Null
    /\ ownLocation = Null

InitSyncIdle == InitPollIdle /\ InitGateIdle

InitRankIdle ==
    /\ rkSensitivity = <<>>
    /\ rkRanking = Null

(***************************************************************************)
(* What-If page: the price sliders and the conversion to request values    *)
(***************************************************************************)
PriceMultiplierMin == 50
PriceMultiplierMax == 200
PriceMultiplierStep == 5
PriceElasticityMin == -300
PriceElasticityMax == 0
PriceElasticityStep == 10

\* the values the Price Multiplier RangeSlider can produce
PriceMultiplierValues ==
    {v \in PriceMultiplierMin..PriceMultiplierMax :
        (v - PriceMultiplierMin) % PriceMultiplierStep = 0}

\* the values the Price Elasticity RangeSlider can produce
PriceElasticityValues ==
    {v \in PriceElasticityMin..PriceElasticityMax :
        (v - PriceElasticityMin) % PriceElasticityStep = 0}

\* the slider positions the price model is exercised at
PriceMultiplierSample ==
    {50, 75, 95, 100, 105, 110, 135, 140, 170, 200} \cap PriceMultiplierValues

PriceElasticitySample ==
    {-300, -200, -150, -100, -50, -10, 0} \cap PriceElasticityValues

\* `x / 100`: a displayed percentage as the fraction put in the request
ToFraction(x) == Rat(x, 100)

(***************************************************************************)
(* Engine: Price Elasticity Model (spec.md 4.2)                            *)
(***************************************************************************)
DemandEffect_Level(multiplier, elasticity) == RMul(elasticity, multiplier)

DemandEffect_Inverted(multiplier, elasticity) ==
    RMul(elasticity, RSub(ROne, multiplier))

\* demand effect = elasticity x (price_multiplier - 1)
DemandEffect(multiplier, elasticity) == RMul(elasticity, RSub(multiplier, ROne))

\* adjusted daily orders = baseline daily orders x (1 + demand_effect), floored at 0
AdjustedOrders(orders, multiplier, elasticity) ==
    RMax(RZero, RMul(orders, RAdd(ROne, DemandEffect(multiplier, elasticity))))

\* adjusted AOV = baseline AOV x price_multiplier
AdjustedAov(aov, multiplier) == RMul(aov, multiplier)

\* breakeven elasticity = -1 / (price_multiplier - 1), undefined at 1
BreakevenElasticity(multiplier) ==
    IF multiplier = ROne THEN Null
    ELSE RDiv(RInt(-1), RSub(multiplier, ROne))

\* percentage delta of a projected value against the current one
PercentChange(current, projected) ==
    IF current = RZero THEN RZero
    ELSE RMul(RDiv(RSub(projected, current), current), RInt(100))

\* GetPricePreview(price_multiplier, elasticity) over a baseline snapshot
\* base = [orders, aov, unit_cost]
GetPricePreview(base, multiplier, elasticity) ==
    LET curRevenue == RMul(base.orders, base.aov)
        curProfit == RSub(curRevenue, RMul(base.orders, base.unit_cost))
        orders == AdjustedOrders(base.orders, multiplier, elasticity)
        aov == AdjustedAov(base.aov, multiplier)
        revenue == RMul(orders, aov)
        profit == RSub(revenue, RMul(orders, base.unit_cost))
    IN  [ price_multiplier |-> multiplier,
          price_change_percent |-> RMul(RSub(multiplier, ROne), RInt(100)),
          elasticity |-> elasticity,
          demand_effect |-> DemandEffect(multiplier, elasticity),
          current |-> [ daily_revenue |-> curRevenue,
                        daily_orders |-> base.orders,
                        average_order_value |-> base.aov,
                        daily_profit |-> curProfit ],
          projected |-> [ daily_revenue |-> revenue,
                          daily_orders |-> orders,
                          average_order_value |-> aov,
                          daily_profit |-> profit ],
          changes |-> [ revenue_change_percent |-> PercentChange(curRevenue, revenue),
                        orders_change_percent |-> PercentChange(base.orders, orders),
                        profit_change_absolute |-> RSub(profit, curProfit),
                        profit_change_percent |-> PercentChange(curProfit, profit) ],
          analysis |-> [ breakeven_elasticity |-> BreakevenElasticity(multiplier),
                         is_profitable_change |-> RLe(curProfit, profit) ] ]

(***************************************************************************)
(* Engine: Monte Carlo Sampler (spec.md 4.4)                               *)
(***************************************************************************)
\* the distance of a daily draw from the mean, in standard deviations
Deviations == {-1, 0, 1}

\* one daily draw from Normal(mean, sd) truncated at 0; the draw is taken k
\* standard deviations from the mean
DailySample(mean, sd, k) == RMax(RZero, RAdd(mean, RMul(RInt(k), sd)))

\* the revenue totals a trial of `days` independent daily draws can come to
RECURSIVE TrialTotals(_, _, _)
TrialTotals(mean, sd, days) ==
    IF days = 0 THEN {RZero}
    ELSE {RAdd(t, DailySample(mean, sd, k)) :
            t \in TrialTotals(mean, sd, days - 1),
            k \in Deviations}

\* trial profit = trial revenue - trial revenue x adjusted cogs rate
TrialProfit(revenue, cogsRate) == RSub(revenue, RMul(revenue, cogsRate))

(***************************************************************************)
(* Engine: Statistics Reducer (spec.md 4.5)                                *)
(***************************************************************************)
NumBuckets == 20

RECURSIVE RSum(_)
RSum(xs) == IF xs = <<>> THEN RZero ELSE RAdd(Head(xs), RSum(Tail(xs)))

RECURSIVE IntSum(_)
IntSum(xs) == IF xs = <<>> THEN 0 ELSE Head(xs) + IntSum(Tail(xs))

RECURSIVE Insert(_, _)
Insert(x, s) ==
    IF s = <<>> THEN <<x>>
    ELSE IF RLe(x, Head(s)) THEN <<x>> \o s
    ELSE <<Head(s)>> \o Insert(x, Tail(s))

SortAsc_Unsorted(xs) == xs

\* the single sort of the trial population
RECURSIVE SortAsc(_)
SortAsc(xs) == IF xs = <<>> THEN <<>> ELSE Insert(Head(xs), SortAsc(Tail(xs)))

Mean(xs) == RDiv(RSum(xs), RInt(Len(xs)))

Interpolate_NoOffset(lo, hi, frac) == RAdd(lo, RMul(frac, hi))

\* the value `frac` of the way from lo to hi
Interpolate(lo, hi, frac) == RAdd(lo, RMul(frac, RSub(hi, lo)))

\* p-th percentile of the population: linear interpolation between the order
\* statistics around position p/100 x (n - 1)
Percentile(xs, p) ==
    LET s == SortAsc(xs)
        pos == p * (Len(xs) - 1)
        lo == pos \div 100
        fr == pos % 100
    IN  IF fr = 0 THEN s[lo + 1]
        ELSE Interpolate(s[lo + 1], s[lo + 2], Rat(fr, 100))

IsPositive_OrZero(x) == RLe(RZero, x)

\* a trial counts as positive when it is > 0
IsPositive(x) == RLt(RZero, x)

\* probability-positive = fraction of trials > 0, scaled to percent
ProbabilityPositive(xs) ==
    Rat(100 * Cardinality({i \in 1..Len(xs) : IsPositive(xs[i])}), Len(xs))

MinOf(xs) == CHOOSE x \in {xs[i] : i \in 1..Len(xs)} :
                \A i \in 1..Len(xs) : RLe(x, xs[i])
MaxOf(xs) == CHOOSE x \in {xs[i] : i \in 1..Len(xs)} :
                \A i \in 1..Len(xs) : RLe(xs[i], x)

\* linspace(lo, hi, NumBuckets + 1)
BinEdges(lo, hi) ==
    [i \in 1..(NumBuckets + 1) |->
        RAdd(lo, RMul(Rat(i - 1, NumBuckets), RSub(hi, lo)))]

InBucket_HalfOpen(x, edges, i) == RLe(edges[i], x) /\ RLt(x, edges[i + 1])

\* bucket i holds edges[i] <= x < edges[i+1]; the last bucket also holds its
\* right edge
InBucket(x, edges, i) ==
    /\ RLe(edges[i], x)
    /\ IF i = NumBuckets THEN RLe(x, edges[i + 1]) ELSE RLt(x, edges[i + 1])

Histogram(xs) ==
    LET edges == BinEdges(MinOf(xs), MaxOf(xs))
    IN  [ bins |-> edges,
          bin_centers |-> [i \in 1..NumBuckets |->
              RDiv(RAdd(edges[i], edges[i + 1]), RInt(2))],
          frequencies |-> [i \in 1..NumBuckets |->
              Cardinality({k \in 1..Len(xs) : InBucket(xs[k], edges, i)})] ]

\* summary of one trial population
Reduce(xs) ==
    [ mean |-> Mean(xs),
      median |-> Percentile(xs, 50),
      percentile_5 |-> Percentile(xs, 5),
      percentile_95 |-> Percentile(xs, 95),
      confidence_90 |-> <<Percentile(xs, 5), Percentile(xs, 95)>>,
      histogram |-> Histogram(xs) ]

\* the results block of RunSimulation for the revenue totals of the trials
SimulationResults(revenues, cogsRate) ==
    LET profits == [i \in 1..Len(revenues) |-> TrialProfit(revenues[i], cogsRate)]
    IN  [ simulations |-> Len(revenues),
          revenue |-> Reduce(revenues),
          profit |-> [ summary |-> Reduce(profits),
                       trials |-> profits,
                       probability_positive |-> ProbabilityPositive(profits) ] ]

(***************************************************************************)
(* Sampler and reducer as a pure function: one adjusted distribution, one  *)
(* batch of trials, one reduction.                                         *)
(***************************************************************************)
CogsRateSample == {Rat(1, 2), ROne, Rat(3, 2)}
DailyMeanSample == {RZero, ROne, RInt(2)}
DailyStdDevSample == {RZero, ROne}

Distributions ==
    [ mean : DailyMeanSample,
      sd : DailyStdDevSample,
      cogs_rate : CogsRateSample,
      forecast_days : 1..MaxForecastDays ]

InitStats ==
    /\ InitPriceIdle
    /\ InitPageIdle
    /\ InitScenarioIdle
    /\ InitTokenIdle
    /\ InitSyncIdle
    /\ InitRankIdle
    /\ mcDist \in Distributions
    /\ mcTrials = <<>>
    /\ mcResult = Null

\* the sampler draws n trials
DrawTrials(n) ==
    /\ n \in 1..MaxTrials
    /\ mcTrials = <<>>
    /\ mcTrials' \in [1..n -> TrialTotals(mcDist.mean, mcDist.sd, mcDist.forecast_days)]
    /\ UNCHANGED <<mcDist, mcResult>>
    /\ UNCHANGED priceVars
    /\ UNCHANGED pageVars
    /\ UNCHANGED <<scenarioVars, tokenVars, syncVars, rankVars>>

\* the reducer summarises the trials
ReduceTrials ==
    /\ mcTrials # <<>>
    /\ mcResult = Null
    /\ mcResult' = SimulationResults(mcTrials, mcDist.cogs_rate)
    /\ UNCHANGED <<mcDist, mcTrials>>
    /\ UNCHANGED priceVars
    /\ UNCHANGED pageVars
    /\ UNCHANGED <<scenarioVars, tokenVars, syncVars, rankVars>>

NextStats ==
    \/ \E n \in 1..MaxTrials : DrawTrials(n)
    \/ ReduceTrials

SpecStats == InitStats /\ [][NextStats]_vars

(***************************************************************************)
(* Properties of the Statistics Reducer                                    *)
(***************************************************************************)
NonEmptyBuckets(h) == {i \in 1..NumBuckets : h.frequencies[i] # 0}

\* C4: the revenue histogram frequencies and the profit histogram frequencies
\* each sum exactly to `simulations`, the number of trials.
C4_HistogramCountsEveryTrial ==
    mcResult # Null =>
        /\ mcResult.simulations = Len(mcTrials)
        /\ IntSum(mcResult.revenue.histogram.frequencies) = mcResult.simulations
        /\ IntSum(mcResult.profit.summary.histogram.frequencies) = mcResult.simulations

\* a reduced batch of at least three trials whose minimum and maximum differ,
\* for revenue and for profit
C4_Witness ==
    /\ mcResult # Null
    /\ mcResult.simulations >= 3
    /\ MinOf(mcTrials) # MaxOf(mcTrials)
    /\ MinOf(mcResult.profit.trials) # MaxOf(mcResult.profit.trials)

ConfidenceOrdered(r) ==
    /\ r.confidence_90 = <<r.percentile_5, r.percentile_95>>
    /\ RLe(r.confidence_90[1], r.median)
    /\ RLe(r.median, r.confidence_90[2])

\* C5: for revenue and for profit, confidence_90 is the pair
\* (percentile_5, percentile_95) and confidence_90[0] <= median <= confidence_90[1].
C5_MedianInsideConfidence ==
    mcResult # Null =>
        /\ ConfidenceOrdered(mcResult.revenue)
        /\ ConfidenceOrdered(mcResult.profit.summary)

\* results whose three percentiles differ, drawn in descending order
C5_Witness ==
    /\ mcResult # Null
    /\ RLt(mcResult.revenue.percentile_5, mcResult.revenue.median)
    /\ RLt(mcResult.revenue.median, mcResult.revenue.percentile_95)
    /\ RLt(mcTrials[Len(mcTrials)], mcTrials[1])

\* C6: probability_positive = 100 x (number of profit trials > 0) / simulations;
\* it lies in [0, 100], is exactly 100 when every trial profit is > 0 and
\* exactly 0 when none is; a trial profit of exactly 0 does not count.
C6_ProbabilityPositive ==
    mcResult # Null =>
        LET profits == mcResult.profit.trials
            idx == 1..Len(profits)
            pos == {i \in idx : RLt(RZero, profits[i])}
            pp == mcResult.profit.probability_positive
        IN  /\ pp = Rat(100 * Cardinality(pos), mcResult.simulations)
            /\ RLe(RZero, pp) /\ RLe(pp, RInt(100))
            /\ (pos = idx) <=> (pp = RInt(100))
            /\ (pos = {}) <=> (pp = RZero)

\* a batch in which some trial profits are positive and some are exactly 0
C6_Witness ==
    /\ mcResult # Null
    /\ \E i \in 1..Len(mcTrials) : mcResult.profit.trials[i] = RZero
    /\ \E i \in 1..Len(mcTrials) : RLt(RZero, mcResult.profit.trials[i])

AllSame(xs) == \A i \in 1..Len(xs) : xs[i] = xs[1]

Degenerate(r, xs, n) ==
    AllSame(xs) =>
        /\ Cardinality(NonEmptyBuckets(r.histogram)) = 1
        /\ \A i \in NonEmptyBuckets(r.histogram) : r.histogram.frequencies[i] = n
        /\ r.percentile_5 = xs[1]
        /\ r.median = xs[1]
        /\ r.percentile_95 = xs[1]
        /\ r.mean = xs[1]

\* C7: when every trial yields the same value, the histogram has exactly one
\* bucket with a non-zero frequency, that frequency is `simulations`, and
\* percentile_5 = median = percentile_95 = mean = that value.
C7_DegeneratePopulation ==
    mcResult # Null =>
        /\ mcDist.sd = RZero => AllSame(mcTrials)
        /\ Degenerate(mcResult.revenue, mcTrials, mcResult.simulations)
        /\ Degenerate(mcResult.profit.summary, mcResult.profit.trials,
                      mcResult.simulations)

\* std-dev 0: several identical trials with a non-zero revenue and profit
C7_Witness ==
    /\ mcResult # Null
    /\ mcDist.sd = RZero
    /\ mcResult.simulations >= 3
    /\ mcTrials[1] # RZero
    /\ mcResult.profit.trials[1] # RZero

(***************************************************************************)
(* Engine: Baseline Estimator (spec.md 4.1) and the preset catalogue       *)
(***************************************************************************)
\* one daily row of the historical-data provider
DailyRow(orders) == [orders |-> orders, revenue |-> 2 * orders, cogs |-> orders]

Histories == [SampleAges -> {Null} \cup {DailyRow(k) : k \in 0..MaxDailyOrders}]

\* the ages with a row inside the window of the last `days` days
ObservedDays(hist, days) == {a \in SampleAges : a <= days /\ hist[a] # Null}

RECURSIVE SumOrders(_, _)
SumOrders(hist, ages) ==
    IF ages = {} THEN 0
    ELSE LET a == CHOOSE x \in ages : TRUE
         IN  hist[a].orders + SumOrders(hist, ages \ {a})

RECURSIVE SumRevenue(_, _)
SumRevenue(hist, ages) ==
    IF ages = {} THEN 0
    ELSE LET a == CHOOSE x \in ages : TRUE
         IN  hist[a].revenue + SumRevenue(hist, ages \ {a})

RECURSIVE SumCogs(_, _)
SumCogs(hist, ages) ==
    IF ages = {} THEN 0
    ELSE LET a == CHOOSE x \in ages : TRUE
         IN  hist[a].cogs + SumCogs(hist, ages \ {a})

\* guarded division: 0 when the divisor is 0
RatOrZero(n, d) == IF d = 0 THEN RZero ELSE Rat(n, d)

\* BaselineMetrics reduced from the rows `ages` of a window of `days` days
BaselineMetrics(hist, days, ages) ==
    LET n == Cardinality(ages)
        revenue == SumRevenue(hist, ages)
        orders == SumOrders(hist, ages)
        cogs == SumCogs(hist, ages)
    IN  [ period |-> [days |-> days],
          totals |-> [ revenue |-> RInt(revenue),
                       orders |-> RInt(orders),
                       cogs |-> RInt(cogs),
                       profit |-> RInt(revenue - cogs),
                       profit_margin |-> RatOrZero(100 * (revenue - cogs), revenue) ],
          averages |-> [ daily_revenue |-> RatOrZero(revenue, n),
                         daily_orders |-> RatOrZero(orders, n),
                         order_value |-> RatOrZero(revenue, orders),
                         daily_cogs |-> RatOrZero(cogs, n) ] ]

\* the least number of observed days a baseline needs
MinObservations == 2

\* GetBaseline(period_days): fails with InsufficientDataError below two
\* observations
GetBaseline(hist, days) ==
    LET ages == ObservedDays(hist, days)
    IN  IF Cardinality(ages) < MinObservations
        THEN [ok |-> FALSE, error |-> "InsufficientDataError"]
        ELSE [ok |-> TRUE, data |-> BaselineMetrics(hist, days, ages)]

\* ListPresets(): the static catalogue
\* a complete WhatIfVariables value, each field a fraction read from the
\* decimal of the response: hundredths, but for `cogs` in thousandths
PresetVariables(growth, volume, cogs, price) ==
    [ revenue_growth |-> FromDecimal(growth, 100),
      aov_change |-> FromDecimal(0, 100),
      order_volume_change |-> FromDecimal(volume, 100),
      cogs_change |-> FromDecimal(cogs, 1000),
      conversion_rate_change |-> FromDecimal(0, 100),
      price_multiplier |-> FromDecimal(price, 100),
      price_elasticity |-> FromDecimal(-150, 100) ]

ListPresets ==
    [ok |-> TRUE,
     data |-> [presets |-> <<
        [name |-> "Aggressive Growth", variables |-> PresetVariables(25, 20, 0, 100)],
        [name |-> "Price Increase", variables |-> PresetVariables(7, -5, 0, 110)],
        [name |-> "Cost Squeeze", variables |-> PresetVariables(0, 0, 28, 100)] >>]]

\* the request never reached the service or its response was lost
NetworkFailure == [ok |-> FALSE, error |-> "NetworkError"]

(***************************************************************************)
(* What-If page: baseline and presets                                      *)
(***************************************************************************)
\* parseInt of a select option; for the Base Period the same digits reach the
\* service in `?days=...`
ParseInt(str) ==
    CASE str = "7" -> 7
      [] str = "14" -> 14
      [] str = "30" -> 30
      [] str = "60" -> 60
      [] str = "90" -> 90
      [] str = "180" -> 180
      [] str = "365" -> 365
      [] str = "1000" -> 1000
      [] str = "5000" -> 5000
      [] str = "10000" -> 10000
      [] str = "25000" -> 25000
      [] str = "50000" -> 50000

\* authenticatedFetch: the parsed body, or a thrown Error when the request
\* fails or the response is not ok
AuthenticatedFetch(reply) ==
    IF reply.ok THEN [thrown |-> FALSE, data |-> reply.data]
    ELSE [thrown |-> TRUE, message |-> "Request failed"]

\* a baseline whose metrics are all zero
ZeroBaseline(days) ==
    [ period |-> [days |-> days],
      totals |-> [ revenue |-> RZero, orders |-> RZero, cogs |-> RZero,
                   profit |-> RZero, profit_margin |-> RZero ],
      averages |-> [ daily_revenue |-> RZero, daily_orders |-> RZero,
                     order_value |-> RZero, daily_cogs |-> RZero ] ]

BaselineAfterError_Zeroed(days) == ZeroBaseline(days)

\* catch branch of fetchBaseline: setBaseline(null)
BaselineAfterError(days) == Null

\* what the component renders: the spinner while loading, the failure card
\* without a baseline, the page with its controls otherwise
View ==
    IF isLoading THEN "loading"
    ELSE IF baseline = Null THEN "failed"
    ELSE "page"

\* the requests of the page that await their response
InFlightTotal ==
    presetsInFlight + baselineInFlight["30"] + baselineInFlight["60"]
        + baselineInFlight["90"] + baselineInFlight["180"] + baselineInFlight["365"]

\* state after construction and the mount effect, which calls fetchBaseline
\* and fetchPresets
InitPage ==
    /\ InitPriceIdle
    /\ InitStatsIdle
    /\ InitScenarioIdle
    /\ InitTokenIdle
    /\ InitSyncIdle
    /\ InitRankIdle
    /\ baseline = Null
    /\ presets = <<>>
    /\ isLoading = TRUE
    /\ basePeriodDays = "90"
    /\ baselineInFlight = [d \in BasePeriodOptions |-> IF d = "90" THEN 1 ELSE 0]
    /\ presetsInFlight = 1
    /\ history \in Histories
    /\ lastBaselineReply = Null

\* the Base Period select changes; the effect on [fetchBaseline, fetchPresets]
\* runs again and starts both fetches
SetBasePeriodDays(v) ==
    /\ View = "page"
    /\ v \in BasePeriodOptions \ {basePeriodDays}
    /\ InFlightTotal + 2 <= MaxInFlight
    /\ basePeriodDays' = v
    /\ isLoading' = TRUE
    /\ baselineInFlight' = [baselineInFlight EXCEPT ![v] = @ + 1]
    /\ presetsInFlight' = presetsInFlight + 1
    /\ UNCHANGED <<baseline, presets, history, lastBaselineReply>>
    /\ UNCHANGED <<priceVars, statsVars, scenarioVars, tokenVars, syncVars, rankVars>>

\* a fetchBaseline call settles: try / catch / finally
FetchBaselineSettles(d, reply) ==
    /\ baselineInFlight[d] > 0
    /\ baselineInFlight' = [baselineInFlight EXCEPT ![d] = @ - 1]
    /\ LET r == AuthenticatedFetch(reply)
       IN  baseline' = IF r.thrown THEN BaselineAfterError(ParseInt(d)) ELSE r.data
    /\ isLoading' = FALSE
    /\ lastBaselineReply' =
          [ days |-> ParseInt(d),
            observed |-> Cardinality(ObservedDays(history, ParseInt(d))),
            orders |-> SumOrders(history, ObservedDays(history, ParseInt(d))),
            reply |-> reply ]
    /\ UNCHANGED <<presets, basePeriodDays, presetsInFlight, history>>
    /\ UNCHANGED <<priceVars, statsVars, scenarioVars, tokenVars, syncVars, rankVars>>

\* the service answers GET /api/what-if/baseline?days=d
BaselineAnswered(d) ==
    FetchBaselineSettles(d, GetBaseline(history, ParseInt(d)))

\* the baseline request fails in transit
BaselineLost(d) == FetchBaselineSettles(d, NetworkFailure)

\* a fetchPresets call settles: try / catch
FetchPresetsSettles(reply) ==
    /\ presetsInFlight > 0
    /\ presetsInFlight' = presetsInFlight - 1
    /\ LET r == AuthenticatedFetch(reply)
       IN  presets' = IF r.thrown THEN presets ELSE r.data.presets
    /\ UNCHANGED <<baseline, isLoading, basePeriodDays, baselineInFlight,
                   history, lastBaselineReply>>
    /\ UNCHANGED <<priceVars, statsVars, scenarioVars, tokenVars, syncVars, rankVars>>

PresetsAnswered == FetchPresetsSettles(ListPresets)

PresetsLost == FetchPresetsSettles(NetworkFailure)

Next ==
    \/ \E v \in BasePeriodOptions : SetBasePeriodDays(v)
    \/ \E d \in BasePeriodOptions : BaselineAnswered(d)
    \/ \E d \in BasePeriodOptions : BaselineLost(d)
    \/ PresetsAnswered
    \/ PresetsLost

Spec == InitPage /\ [][Next]_vars

(***************************************************************************)
(* Properties of the baseline request                                      *)
(***************************************************************************)
\* C9: a baseline request over a window with 0 or 1 observed days fails with
\* InsufficientDataError and leaves no baseline, zeroed or other; a window with
\* at least 2 observed days whose order counts are all zero yields a baseline
\* with zero metrics and no error; the page shows the failure card for the
\* first and the page for the second.
C9_InsufficientDataIsNotZeroData ==
    lastBaselineReply # Null /\ lastBaselineReply.reply # NetworkFailure =>
        LET r == lastBaselineReply
        IN  /\ r.observed < 2 =>
                /\ ~r.reply.ok
                /\ r.reply.error = "InsufficientDataError"
                /\ baseline = Null
                /\ ~isLoading => View = "failed"
            /\ r.observed >= 2 =>
                /\ r.reply.ok
                /\ baseline = r.reply.data
                /\ baseline # Null
                /\ r.orders = 0 => baseline = ZeroBaseline(r.days)
                /\ ~isLoading => View = "page"

\* the window holds a single day, one without orders, and the request for it
\* was answered
C9_Witness ==
    /\ lastBaselineReply # Null
    /\ lastBaselineReply.reply # NetworkFailure
    /\ lastBaselineReply.observed = 1
    /\ lastBaselineReply.orders = 0
    /\ View = "failed"

\* C10: after a baseline request failed (baseline = null, isLoading = false)
\* the page can still change the base period and so issue a new baseline
\* request.
C10_RetryWithLongerWindow ==
    (baseline = Null /\ ~isLoading /\ InFlightTotal + 2 <= MaxInFlight) =>
        ENABLED (\E v \in BasePeriodOptions : SetBasePeriodDays(v))

(***************************************************************************)
(* The price model as a pure function: a caller asks for previews of one   *)
(* baseline at one elasticity and a series of price multipliers.           *)
(***************************************************************************)
BaseSnapshots ==
    [ orders : {RInt(i) : i \in 0..MaxBaseOrders},
      aov : {RInt(i) : i \in 1..MaxBaseAov},
      unit_cost : {RInt(i) : i \in 0..MaxUnitCost} ]

InitPrice ==
    /\ InitStatsIdle
    /\ InitPageIdle
    /\ InitScenarioIdle
    /\ InitTokenIdle
    /\ InitSyncIdle
    /\ InitRankIdle
    /\ pmBase \in BaseSnapshots
    /\ pmElasticity \in PriceElasticitySample
    /\ pmPreview = Null
    /\ pmPrev = Null
    /\ pmProbe = Null

\* one GetPricePreview call with the slider value m as price multiplier
PreviewAt(m) ==
    /\ m \in PriceMultiplierSample
    /\ pmPreview' = GetPricePreview(pmBase, ToFraction(m), ToFraction(pmElasticity))
    /\ pmPrev' = pmPreview
    /\ pmProbe' = Null
    /\ UNCHANGED <<pmBase, pmElasticity>>
    /\ UNCHANGED statsVars
    /\ UNCHANGED pageVars
    /\ UNCHANGED <<scenarioVars, tokenVars, syncVars, rankVars>>

\* the price model evaluated again at the breakeven elasticity it reported
ProbeBreakeven ==
    /\ pmPreview # Null
    /\ pmProbe = Null
    /\ pmPreview.analysis.breakeven_elasticity # Null
    /\ pmProbe' = GetPricePreview(pmBase, pmPreview.price_multiplier,
                                  pmPreview.analysis.breakeven_elasticity)
    /\ UNCHANGED <<pmBase, pmElasticity, pmPreview, pmPrev>>
    /\ UNCHANGED statsVars
    /\ UNCHANGED pageVars
    /\ UNCHANGED <<scenarioVars, tokenVars, syncVars, rankVars>>

NextPrice ==
    \/ \E m \in PriceMultiplierSample : PreviewAt(m)
    \/ ProbeBreakeven

SpecPrice == InitPrice /\ [][NextPrice]_vars

(***************************************************************************)
(* Properties of the Price Elasticity Model                                *)
(***************************************************************************)
\* C1: at price_multiplier = 1.0 (any elasticity) and at elasticity = 0 (any
\* price multiplier) the demand effect is 0 and the adjusted daily orders
\* equal the baseline daily orders; at price_multiplier = 1.0 the revenue and
\* profit deltas are 0 as well.
C1_NoPriceChangeNoEffect ==
    pmPreview # Null =>
        /\ (pmPreview.price_multiplier = ROne \/ pmPreview.elasticity = RZero) =>
              /\ pmPreview.demand_effect = RZero
              /\ pmPreview.projected.daily_orders = pmPreview.current.daily_orders
        /\ pmPreview.price_multiplier = ROne =>
              /\ pmPreview.projected.daily_revenue = pmPreview.current.daily_revenue
              /\ pmPreview.projected.daily_profit = pmPreview.current.daily_profit
              /\ pmPreview.changes.revenue_change_percent = RZero
              /\ pmPreview.changes.profit_change_absolute = RZero
              /\ pmPreview.changes.profit_change_percent = RZero

\* a preview at multiplier 1.0 with a non-zero elasticity, a baseline that has
\* orders and a unit cost
C1_Witness ==
    /\ pmPreview # Null
    /\ pmPreview.price_multiplier = ROne
    /\ pmPreview.elasticity # RZero
    /\ RLt(RZero, pmPreview.current.daily_orders)
    /\ RLt(RZero, pmBase.unit_cost)

\* two successive previews of one baseline at a negative elasticity, the
\* second at the higher price multiplier
PricePair ==
    /\ pmPrev # Null
    /\ pmPreview # Null
    /\ RLt(pmPreview.elasticity, RZero)
    /\ RLt(RZero, pmBase.orders)
    /\ RLt(pmPrev.price_multiplier, pmPreview.price_multiplier)

\* C2 as stated: for a fixed negative elasticity and positive baseline orders
\* the adjusted order count at the higher of two price multipliers is strictly
\* less than at the lower one.
C2_StrictlyDecreasing ==
    PricePair =>
        RLt(pmPreview.projected.daily_orders, pmPrev.projected.daily_orders)

\* C2 amended: the adjusted order count at the higher price multiplier is never
\* greater than at the lower one, and it is strictly less whenever the count at
\* the lower multiplier is positive (not yet floored at 0).
C2_Decreasing ==
    PricePair =>
        /\ RLe(pmPreview.projected.daily_orders, pmPrev.projected.daily_orders)
        /\ RLt(RZero, pmPrev.projected.daily_orders) =>
              RLt(pmPreview.projected.daily_orders, pmPrev.projected.daily_orders)

\* a pair whose lower multiplier still has orders and whose higher multiplier
\* is floored at 0
C2_Witness ==
    /\ PricePair
    /\ RLt(RZero, pmPrev.projected.daily_orders)
    /\ pmPreview.projected.daily_orders = RZero

\* C3: the price model evaluated at the reported breakeven elasticity
\* -1 / (price_multiplier - 1) gives an adjusted daily revenue equal to the
\* baseline daily revenue; at price_multiplier = 1 the breakeven elasticity is
\* null.
C3_BreakevenKeepsRevenue ==
    /\ pmPreview # Null =>
          ( pmPreview.analysis.breakeven_elasticity = Null
              <=> pmPreview.price_multiplier = ROne )
    /\ pmProbe # Null =>
          /\ pmProbe.elasticity =
                RDiv(RInt(-1), RSub(pmProbe.price_multiplier, ROne))
          /\ pmProbe.projected.daily_revenue = pmProbe.current.daily_revenue

(***************************************************************************)
(* What-If page: the scenario controls, loadPreset, resetToBaseline and     *)
(* runSimulation, on the page as it shows once a baseline has loaded.       *)
(***************************************************************************)
MaxEdits == 2

ForecastOptions == {"7", "14", "30", "60", "90"}
SimulationOptions == {"1000", "5000", "10000", "25000", "50000"}

\* the options the selects are changed to: the least and the greatest
ForecastSample == {"7"} \cap ForecastOptions
SimulationSample == {"50000"} \cap SimulationOptions

\* the fields of WhatIfVariables, in declaration order
WhatIfFields ==
    << "revenue_growth", "aov_change", "order_volume_change", "cogs_change",
       "conversion_rate_change", "price_multiplier", "price_elasticity" >>

\* ranges of the five change sliders (step 1) and the values drawn from them
RevenueGrowthMin == -50
RevenueGrowthMax == 100
AovChangeMin == -50
AovChangeMax == 50
OrderVolumeChangeMin == -50
OrderVolumeChangeMax == 100
CogsChangeMin == -30
CogsChangeMax == 50
ConversionRateChangeMin == -30
ConversionRateChangeMax == 50

RevenueGrowthSample == {35} \cap (RevenueGrowthMin..RevenueGrowthMax)
AovChangeSample == {-20} \cap (AovChangeMin..AovChangeMax)
OrderVolumeChangeSample == {50} \cap (OrderVolumeChangeMin..OrderVolumeChangeMax)
CogsChangeSample == {-30} \cap (CogsChangeMin..CogsChangeMax)
ConversionRateChangeSample == {7} \cap (ConversionRateChangeMin..ConversionRateChangeMax)
PriceMultiplierEdits == {115} \cap PriceMultiplierValues
PriceElasticityEdits == {-80} \cap PriceElasticityValues

\* a property a response does not carry
Undefined == [undefined |-> TRUE]

Field(rec, f) == IF f \in DOMAIN rec THEN rec[f] ELSE Undefined

\* the operator ??
Coalesce(v, default) == IF v = Undefined THEN default ELSE v

\* loadPreset: a fraction of the preset becomes a slider value
LoadedValue_Raw(x) == x

LoadedValue(x) == FMul(x, 100)

\* runSimulation: a slider value becomes a fraction of the request
SentValue(x) == FDiv(x, 100)

SimulateVariables_NoPrice ==
    [ revenue_growth |-> SentValue(revenueGrowth),
      aov_change |-> SentValue(aovChange),
      order_volume_change |-> SentValue(orderVolumeChange),
      cogs_change |-> SentValue(cogsChange),
      conversion_rate_change |-> SentValue(conversionRateChange) ]

SimulateVariables ==
    [ revenue_growth |-> SentValue(revenueGrowth),
      aov_change |-> SentValue(aovChange),
      order_volume_change |-> SentValue(orderVolumeChange),
      cogs_change |-> SentValue(cogsChange),
      conversion_rate_change |-> SentValue(conversionRateChange),
      price_multiplier |-> SentValue(priceMultiplier),
      price_elasticity |-> SentValue(priceElasticity) ]

SimulateRequest_Swapped ==
    [ base_period_days |-> ParseInt(basePeriodDays),
      forecast_days |-> ParseInt(numSimulations),
      simulations |-> ParseInt(forecastDays),
      variables |-> SimulateVariables ]

\* the body of POST /api/what-if/simulate
SimulateRequest ==
    [ base_period_days |-> ParseInt(basePeriodDays),
      forecast_days |-> ParseInt(forecastDays),
      simulations |-> ParseInt(numSimulations),
      variables |-> SimulateVariables ]

\* Engine (spec.md 4.4, 4.6, 5): the supported trial counts, and the
\* sensitivity maps a simulation may report, one impact per variable in
\* declaration order
SupportedTrialsMin == 1000
SupportedTrialsMax == 50000

ImpactPatterns ==
    { <<40, 20, 20, 0, 20, 40, 0>>,
      <<5, 10, 15, 20, 25, 30, 35>> }

SensitivityOf(p) ==
    [i \in 1..Len(WhatIfFields) |-> [variable |-> WhatIfFields[i], impact |-> p[i]]]

\* RunSimulation of the engine: out-of-range requests fail with a typed
\* error and no partial result; of the result the page keeps, only the
\* sensitivity map is modelled, as the sequence of its entries
Simulate(request, p) ==
    IF request.forecast_days < 1 \/ request.base_period_days < 1
    THEN [ok |-> FALSE, error |-> "ValidationError"]
    ELSE IF request.simulations < SupportedTrialsMin
            \/ request.simulations > SupportedTrialsMax
    THEN [ok |-> FALSE, error |-> "ComputationLimitError"]
    ELSE [ok |-> TRUE, data |-> [sensitivity |-> SensitivityOf(p)]]

\* the errors with which the service may turn a request down
EngineErrors == {"ValidationError", "InsufficientDataError", "ComputationLimitError"}

\* the base period the page is constructed with
BasePeriodSample == {"90"} \cap BasePeriodOptions

\* a shop with a row at every sampled age
FullHistory == [a \in SampleAges |-> DailyRow(1)]

\* the delay of the debounce effect, in ms
DebounceMs == 300

\* the timer a run of the debounce effect sets: its callback calls the
\* fetchPricePreview made for these slider values
NewTimer(multiplier, elasticity) ==
    [multiplier |-> multiplier, elasticity |-> elasticity, age |-> 0]

TimersAfterChange_NoClear(timers, new) == timers \cup {new}

\* the cleanup of the effect clears its timer, the new run sets one
TimersAfterChange(timers, new) == {new}

\* the debounce effect after a handler: it runs again when priceMultiplier
\* or priceElasticity has changed
RestartDebounce ==
    /\ IF priceMultiplier' = priceMultiplier /\ priceElasticity' = priceElasticity
       THEN UNCHANGED <<debounceTimers, sinceChange>>
       ELSE /\ debounceTimers' =
                  TimersAfterChange(debounceTimers, NewTimer(priceMultiplier', priceElasticity'))
            /\ sinceChange' = 0
    /\ UNCHANGED <<previewRequests, previewInFlight, pricePreview, isLoadingPreview>>

\* the page after the mount effect has completed for the selected base
\* period: baseline and presets loaded, controls as constructed
InitScenario ==
    /\ InitPriceIdle
    /\ InitStatsIdle
    /\ InitTokenIdle
    /\ InitSyncIdle
    /\ InitRankIdle
    /\ InitControls
    /\ debounceTimers = {NewTimer(priceMultiplier, priceElasticity)}
    /\ sinceChange = 0
    /\ previewRequests = <<>>
    /\ previewInFlight = {}
    /\ pricePreview = Null
    /\ isLoadingPreview = FALSE
    /\ history = FullHistory
    /\ basePeriodDays \in
          {d \in BasePeriodSample : GetBaseline(FullHistory, ParseInt(d)).ok}
    /\ baseline = GetBaseline(history, ParseInt(basePeriodDays)).data
    /\ presets = ListPresets.data.presets
    /\ isLoading = FALSE
    /\ baselineInFlight = [d \in BasePeriodOptions |-> 0]
    /\ presetsInFlight = 0
    /\ lastBaselineReply =
          [ days |-> ParseInt(basePeriodDays),
            observed |-> Cardinality(ObservedDays(history, ParseInt(basePeriodDays))),
            orders |-> SumOrders(history, ObservedDays(history, ParseInt(basePeriodDays))),
            reply |-> GetBaseline(history, ParseInt(basePeriodDays)) ]

\* a control of the page changes
Edited ==
    /\ View = "page"
    /\ edits < MaxEdits
    /\ edits' = edits + 1
    /\ UNCHANGED <<simulation, isSimulating, simulateInFlight, sentOrigin,
                   simulationAtCall, lastOutcome>>
    /\ UNCHANGED <<priceVars, statsVars, pageVars, tokenVars, syncVars, rankVars>>

SetRevenueGrowth(v) ==
    /\ Edited
    /\ revenueGrowth # FromInt(v)
    /\ revenueGrowth' = FromInt(v)
    /\ origin' = [kind |-> "edited"]
    /\ UNCHANGED <<aovChange, orderVolumeChange, cogsChange, conversionRateChange,
                   priceMultiplier, priceElasticity, forecastDays, numSimulations>>
    /\ UNCHANGED previewVars

SetAovChange(v) ==
    /\ Edited
    /\ aovChange # FromInt(v)
    /\ aovChange' = FromInt(v)
    /\ origin' = [kind |-> "edited"]
    /\ UNCHANGED <<revenueGrowth, orderVolumeChange, cogsChange, conversionRateChange,
                   priceMultiplier, priceElasticity, forecastDays, numSimulations>>
    /\ UNCHANGED previewVars

SetOrderVolumeChange(v) ==
    /\ Edited
    /\ orderVolumeChange # FromInt(v)
    /\ orderVolumeChange' = FromInt(v)
    /\ origin' = [kind |-> "edited"]
    /\ UNCHANGED <<revenueGrowth, aovChange, cogsChange, conversionRateChange,
                   priceMultiplier, priceElasticity, forecastDays, numSimulations>>
    /\ UNCHANGED previewVars

SetCogsChange(v) ==
    /\ Edited
    /\ cogsChange # FromInt(v)
    /\ cogsChange' = FromInt(v)
    /\ origin' = [kind |-> "edited"]
    /\ UNCHANGED <<revenueGrowth, aovChange, orderVolumeChange, conversionRateChange,
                   priceMultiplier, priceElasticity, forecastDays, numSimulations>>
    /\ UNCHANGED previewVars

SetConversionRateChange(v) ==
    /\ Edited
    /\ conversionRateChange # FromInt(v)
    /\ conversionRateChange' = FromInt(v)
    /\ origin' = [kind |-> "edited"]
    /\ UNCHANGED <<revenueGrowth, aovChange, orderVolumeChange, cogsChange,
                   priceMultiplier, priceElasticity, forecastDays, numSimulations>>
    /\ UNCHANGED previewVars

SetPriceMultiplier(v) ==
    /\ Edited
    /\ priceMultiplier # FromInt(v)
    /\ priceMultiplier' = FromInt(v)
    /\ origin' = [kind |-> "edited"]
    /\ UNCHANGED <<revenueGrowth, aovChange, orderVolumeChange, cogsChange,
                   conversionRateChange, priceElasticity, forecastDays, numSimulations>>
    /\ RestartDebounce

SetPriceElasticity(v) ==
    /\ Edited
    /\ priceElasticity # FromInt(v)
    /\ priceElasticity' = FromInt(v)
    /\ origin' = [kind |-> "edited"]
    /\ UNCHANGED <<revenueGrowth, aovChange, orderVolumeChange, cogsChange,
                   conversionRateChange, priceMultiplier, forecastDays, numSimulations>>
    /\ RestartDebounce

SetForecastDays(v) ==
    /\ Edited
    /\ v \in ForecastOptions
    /\ v # forecastDays
    /\ forecastDays' = v
    /\ UNCHANGED <<sliderVars, numSimulations, origin>>
    /\ UNCHANGED previewVars

SetNumSimulations(v) ==
    /\ Edited
    /\ v \in SimulationOptions
    /\ v # numSimulations
    /\ numSimulations' = v
    /\ UNCHANGED <<sliderVars, forecastDays, origin>>
    /\ UNCHANGED previewVars

\* loadPreset(preset): every slider takes the preset's fraction times 100
LoadPreset(i) ==
    /\ Edited
    /\ i \in 1..Len(presets)
    /\ LET v == presets[i].variables
       IN  /\ revenueGrowth' = LoadedValue(v.revenue_growth)
           /\ aovChange' = LoadedValue(v.aov_change)
           /\ orderVolumeChange' = LoadedValue(v.order_volume_change)
           /\ cogsChange' = LoadedValue(v.cogs_change)
           /\ conversionRateChange' = LoadedValue(v.conversion_rate_change)
           /\ priceMultiplier' =
                 LoadedValue(Coalesce(Field(v, "price_multiplier"), FromInt(1)))
           /\ priceElasticity' =
                 LoadedValue(Coalesce(Field(v, "price_elasticity"), FromDecimal(-15, 10)))
    /\ origin' = [kind |-> "preset", index |-> i]
    /\ UNCHANGED <<forecastDays, numSimulations>>
    /\ RestartDebounce

\* resetToBaseline
ResetToBaseline ==
    /\ Edited
    /\ revenueGrowth' = FromInt(0)
    /\ aovChange' = FromInt(0)
    /\ orderVolumeChange' = FromInt(0)
    /\ cogsChange' = FromInt(0)
    /\ conversionRateChange' = FromInt(0)
    /\ priceMultiplier' = FromInt(100)
    /\ priceElasticity' = FromInt(-150)
    /\ origin' = [kind |-> "reset"]
    /\ UNCHANGED <<forecastDays, numSimulations>>
    /\ RestartDebounce

\* runSimulation up to its await; the Run Simulation button is `loading`,
\* hence disabled, while isSimulating
RunSimulation ==
    /\ View = "page"
    /\ ~isSimulating
    /\ isSimulating' = TRUE
    /\ simulateInFlight' = SimulateRequest
    /\ sentOrigin' = origin
    /\ simulationAtCall' = simulation
    /\ lastOutcome' = "none"
    /\ UNCHANGED <<sliderVars, forecastDays, numSimulations, simulation, origin, edits>>
    /\ UNCHANGED <<priceVars, statsVars, pageVars, tokenVars, syncVars, rankVars>>
    /\ UNCHANGED previewVars

SimulationAfterError_Cleared(sim) == Null

\* catch branch of runSimulation: console.error and alert only
SimulationAfterError(sim) == sim

\* the awaited request settles: try / catch / finally
RunSimulationSettles(reply) ==
    /\ simulateInFlight # Null
    /\ LET r == AuthenticatedFetch(reply)
       IN  /\ simulation' = IF r.thrown THEN SimulationAfterError(simulation) ELSE r.data
           /\ lastOutcome' = IF r.thrown THEN "failed" ELSE "ok"
    /\ isSimulating' = FALSE
    /\ simulateInFlight' = Null
    /\ UNCHANGED <<sliderVars, forecastDays, numSimulations, origin, sentOrigin,
                   simulationAtCall, edits>>
    /\ UNCHANGED <<priceVars, statsVars, pageVars, tokenVars, syncVars, rankVars>>
    /\ UNCHANGED previewVars

\* the engine runs the request
SimulateAnswered(p) == RunSimulationSettles(Simulate(simulateInFlight, p))

\* the service turns the request down
SimulateRejected(e) == RunSimulationSettles([ok |-> FALSE, error |-> e])

\* the request fails in transit
SimulateLost == RunSimulationSettles(NetworkFailure)

NextScenario ==
    \/ \E v \in RevenueGrowthSample : SetRevenueGrowth(v)
    \/ \E v \in AovChangeSample : SetAovChange(v)
    \/ \E v \in OrderVolumeChangeSample : SetOrderVolumeChange(v)
    \/ \E v \in CogsChangeSample : SetCogsChange(v)
    \/ \E v \in ConversionRateChangeSample : SetConversionRateChange(v)
    \/ \E v \in PriceMultiplierEdits : SetPriceMultiplier(v)
    \/ \E v \in PriceElasticityEdits : SetPriceElasticity(v)
    \/ \E v \in ForecastSample : SetForecastDays(v)
    \/ \E v \in SimulationSample : SetNumSimulations(v)
    \/ \E i \in 1..Len(presets) : LoadPreset(i)
    \/ ResetToBaseline
    \/ RunSimulation
    \/ \E p \in ImpactPatterns : SimulateAnswered(p)
    \/ \E e \in EngineErrors : SimulateRejected(e)
    \/ SimulateLost

SpecScenario == InitScenario /\ [][NextScenario]_vars

(***************************************************************************)
(* Properties of runSimulation and the scenario controls                   *)
(***************************************************************************)
\* C11: after a runSimulation that failed, `simulation` is what it was when
\* the call was made and isSimulating is false again.
C11_FailedRunKeepsSimulation ==
    lastOutcome = "failed" => (simulation = simulationAtCall /\ ~isSimulating)

\* a run failed after an earlier run had succeeded
C11_Witness == lastOutcome = "failed" /\ simulation # Null

\* the request of a runSimulation step, written out from the sliders
FractionsOfSliders ==
    [ revenue_growth |-> FDiv(revenueGrowth, 100),
      aov_change |-> FDiv(aovChange, 100),
      order_volume_change |-> FDiv(orderVolumeChange, 100),
      cogs_change |-> FDiv(cogsChange, 100),
      conversion_rate_change |-> FDiv(conversionRateChange, 100),
      price_multiplier |-> FDiv(priceMultiplier, 100),
      price_elasticity |-> FDiv(priceElasticity, 100) ]

SendsFractions ==
    (simulateInFlight = Null /\ simulateInFlight' # Null) =>
        simulateInFlight'.variables = FractionsOfSliders

SentPreset == presets[sentOrigin.index].variables

PresetInFlight ==
    /\ simulateInFlight # Null
    /\ sentOrigin.kind = "preset"

\* C14 as claimed: every variable of a simulate request is the slider value
\* divided by 100, and a request sent right after loadPreset(p) carries
\* p.variables field by field.
C14_PresetRoundTrip ==
    /\ [][SendsFractions]_vars
    /\ [](PresetInFlight => simulateInFlight.variables = SentPreset)

\* the fractions with two decimals between -3 and 3
Hundredths == {FromDecimal(k, 100) : k \in -300..300}

WholePercents(v) == \A i \in 1..Len(WhatIfFields) : v[WhatIfFields[i]] \in Hundredths

\* the round trip of every such fraction through loadPreset and runSimulation
HundredthsRoundTrip == \A x \in Hundredths : SentValue(LoadedValue(x)) = x

\* C14, amended: every variable of a simulate request is the slider value
\* divided by 100, and a request sent right after loadPreset(p) carries
\* p.variables field by field when the values of p are whole percents.
C14_WholePercentRoundTrip ==
    /\ [][SendsFractions]_vars
    /\ [](HundredthsRoundTrip)
    /\ []((PresetInFlight /\ WholePercents(SentPreset)) =>
              simulateInFlight.variables = SentPreset)

\* a request sent right after loading a preset of whole percents, none of
\* them 0 for growth, volume and price
C14_Witness ==
    /\ PresetInFlight
    /\ WholePercents(SentPreset)
    /\ SentPreset.revenue_growth # FZero
    /\ SentPreset.price_multiplier # FromInt(1)

IsNumber(x) == DOMAIN x = {"s", "m", "e"}

C16_RequestWithinOptions ==
    /\ \A o \in SimulationOptions :
          ParseInt(o) \in SupportedTrialsMin..SupportedTrialsMax
    /\ \A o \in ForecastOptions \cup BasePeriodOptions : ParseInt(o) > 0
    /\ simulateInFlight # Null =>
          /\ simulateInFlight.simulations \in SupportedTrialsMin..SupportedTrialsMax
          /\ simulateInFlight.simulations \in {ParseInt(o) : o \in SimulationOptions}
          /\ simulateInFlight.forecast_days \in {ParseInt(o) : o \in ForecastOptions}
          /\ simulateInFlight.base_period_days \in {ParseInt(o) : o \in BasePeriodOptions}
          /\ simulateInFlight.forecast_days > 0
          /\ simulateInFlight.base_period_days > 0

\* a request for the most trials over the shortest forecast
C16_Witness ==
    /\ simulateInFlight # Null
    /\ simulateInFlight.simulations = 50000
    /\ simulateInFlight.forecast_days = 7

(***************************************************************************)
(* The sensitivity list of the page as a pure function:                     *)
(* Object.entries(simulation.sensitivity).sort(([, a], [, b]) => b - a)     *)
(***************************************************************************)
ImpactSample == {0, 20, 40}

Compare_Ascending(a, b) == a - b

\* the comparator of the sort
Compare(a, b) == b - a

\* Array.prototype.sort is stable: e goes behind every entry the comparator
\* does not order after it
RECURSIVE InsertEntry(_, _)
InsertEntry(sorted, e) ==
    IF sorted = <<>> THEN <<e>>
    ELSE IF Compare(Head(sorted).impact, e.impact) <= 0
    THEN <<Head(sorted)>> \o InsertEntry(Tail(sorted), e)
    ELSE <<e>> \o sorted

RECURSIVE SortEntries(_)
SortEntries(es) ==
    IF es = <<>> THEN <<>>
    ELSE InsertEntry(SortEntries(SubSeq(es, 1, Len(es) - 1)), es[Len(es)])

SensitivityRanking(sens) == SortEntries(sens)

InitRanking ==
    /\ InitPriceIdle
    /\ InitStatsIdle
    /\ InitPageIdle
    /\ InitScenarioIdle
    /\ InitTokenIdle
    /\ InitSyncIdle
    /\ rkSensitivity \in {SensitivityOf(p) : p \in [1..Len(WhatIfFields) -> ImpactSample]}
    /\ rkRanking = Null

\* the results render: the list shows when the map has a key
RenderSensitivity ==
    /\ rkRanking = Null
    /\ Len(rkSensitivity) > 0
    /\ rkRanking' = SensitivityRanking(rkSensitivity)
    /\ UNCHANGED rkSensitivity
    /\ UNCHANGED <<priceVars, statsVars, pageVars, scenarioVars, tokenVars, syncVars>>

NextRanking == RenderSensitivity

SpecRanking == InitRanking /\ [][NextRanking]_vars

\* the place of a variable among the keys of the map
KeyPosition(variable) ==
    CHOOSE i \in 1..Len(rkSensitivity) : rkSensitivity[i].variable = variable

\* C12: the list shows every entry of the map once, by descending impact,
\* and entries of equal impact in the order of their keys in the map, which
\* is the declaration order of WhatIfVariables.
C12_RankingDescendingStable ==
    rkRanking # Null =>
        /\ Len(rkRanking) = Len(rkSensitivity)
        /\ \A i \in 1..Len(rkSensitivity) :
              /\ rkSensitivity[i].variable = WhatIfFields[i]
              /\ \E j \in 1..Len(rkRanking) : rkRanking[j] = rkSensitivity[i]
        /\ \A i, j \in 1..Len(rkRanking) :
              i < j =>
                  /\ rkRanking[i].impact >= rkRanking[j].impact
                  /\ rkRanking[i].impact = rkRanking[j].impact =>
                        KeyPosition(rkRanking[i].variable)
                            < KeyPosition(rkRanking[j].variable)

\* a list with ties that the sort had to reorder
C12_Witness ==
    /\ rkRanking # Null
    /\ rkRanking # rkSensitivity
    /\ \E i, j \in 1..Len(rkRanking) :
          i # j /\ rkRanking[i].impact = rkRanking[j].impact
    /\ \E i, j \in 1..Len(rkRanking) : rkRanking[i].impact # rkRanking[j].impact

(***************************************************************************)
(* Session token of the API client: getValidToken (lib/api.ts).  A fetch    *)
(* is the promise built around one getSessionToken call raced against an    *)
(* 8 s timer; 100 ms after it settles a timer clears tokenFetchPromise.     *)
(***************************************************************************)
MaxCalls == 3

UrlTokenStates == {"valid", "expired", "absent"}

InitToken ==
    /\ InitPriceIdle
    /\ InitStatsIdle
    /\ InitPageIdle
    /\ InitScenarioIdle
    /\ InitSyncIdle
    /\ InitRankIdle
    /\ tokenFetchPromise = Null
    /\ fetches = <<>>
    /\ calls = <<>>
    /\ urlToken \in UrlTokenStates
    /\ InitUrlIdle

\* getTokenFromUrl: the id_token of the URL when it is there and not expired
GetTokenFromUrl == IF urlToken = "valid" THEN [token |-> "url"] ELSE Null

\* the record of call c, a new call or one that went on after its wait
SetCall(c, r) == IF c > Len(calls) THEN Append(calls, r) ELSE [calls EXCEPT ![c] = r]

\* getValidToken from the URL token on: return the URL token, or start a
\* fetch, store it in tokenFetchPromise and return it
ResolveToken(c) ==
    IF GetTokenFromUrl # Null
    THEN /\ calls' = SetCall(c, [pc |-> "done", on |-> 0, result |-> GetTokenFromUrl.token])
         /\ UNCHANGED <<tokenFetchPromise, fetches>>
    ELSE /\ fetches' = Append(fetches, [state |-> "pending", clear |-> "none"])
         /\ tokenFetchPromise' = [fetch |-> Len(fetches) + 1]
         /\ calls' = SetCall(c, [pc |-> "returned", on |-> Len(fetches) + 1, result |-> "none"])

\* a caller enters getValidToken: with a fetch stored it awaits that fetch
GetValidToken ==
    /\ Len(calls) < MaxCalls
    /\ IF tokenFetchPromise # Null
       THEN /\ calls' = Append(calls, [pc |-> "waiting", on |-> tokenFetchPromise.fetch,
                                       result |-> "none"])
            /\ UNCHANGED <<tokenFetchPromise, fetches>>
       ELSE ResolveToken(Len(calls) + 1)
    /\ UNCHANGED urlToken
    /\ UNCHANGED <<urlVars, priceVars, statsVars, pageVars, scenarioVars, syncVars,
                   rankVars>>

\* the awaited fetch has settled: its token is returned, or its rejection is
\* caught and the call goes on from the URL token
WaiterResumes(c) ==
    /\ c \in 1..Len(calls)
    /\ calls[c].pc = "waiting"
    /\ fetches[calls[c].on].state # "pending"
    /\ IF fetches[calls[c].on].state = "resolved"
       THEN /\ calls' = [calls EXCEPT ![c] = [pc |-> "done", on |-> @.on, result |-> "token"]]
            /\ UNCHANGED <<tokenFetchPromise, fetches>>
       ELSE ResolveToken(c)
    /\ UNCHANGED urlToken
    /\ UNCHANGED <<urlVars, priceVars, statsVars, pageVars, scenarioVars, syncVars,
                   rankVars>>

\* the fetch a call returned has settled, and with it the call
CallSettles(c) ==
    /\ c \in 1..Len(calls)
    /\ calls[c].pc = "returned"
    /\ fetches[calls[c].on].state # "pending"
    /\ calls' = [calls EXCEPT ![c] =
                    [pc |-> "done", on |-> @.on,
                     result |-> IF fetches[@.on].state = "resolved" THEN "token" ELSE "error"]]
    /\ UNCHANGED <<tokenFetchPromise, fetches, urlToken>>
    /\ UNCHANGED <<urlVars, priceVars, statsVars, pageVars, scenarioVars, syncVars,
                   rankVars>>

\* a fetch settles; its finally block schedules the clearing timer
FetchSettles(f, state) ==
    /\ f \in 1..Len(fetches)
    /\ fetches[f].state = "pending"
    /\ fetches' = [fetches EXCEPT ![f] = [state |-> state, clear |-> "scheduled"]]
    /\ UNCHANGED <<tokenFetchPromise, calls, urlToken>>
    /\ UNCHANGED <<urlVars, priceVars, statsVars, pageVars, scenarioVars, syncVars,
                   rankVars>>

\* getSessionToken resolves within 8 s
SessionTokenArrives(f) == FetchSettles(f, "resolved")

\* getSessionToken rejects within 8 s
SessionTokenRejected(f) == FetchSettles(f, "rejected")

\* the 8 s timer fires first
FetchTimesOut(f) == FetchSettles(f, "rejected")

\* the timer of the finally block fires: tokenFetchPromise = null
ClearTimerFires(f) ==
    /\ f \in 1..Len(fetches)
    /\ fetches[f].clear = "scheduled"
    /\ fetches' = [fetches EXCEPT ![f].clear = "done"]
    /\ tokenFetchPromise' = Null
    /\ UNCHANGED <<calls, urlToken>>
    /\ UNCHANGED <<urlVars, priceVars, statsVars, pageVars, scenarioVars, syncVars,
                   rankVars>>

\* time passes beyond the expiry of the URL token
UrlTokenExpires ==
    /\ urlToken = "valid"
    /\ urlToken' = "expired"
    /\ UNCHANGED <<tokenFetchPromise, fetches, calls>>
    /\ UNCHANGED <<urlVars, priceVars, statsVars, pageVars, scenarioVars, syncVars,
                   rankVars>>

NextToken ==
    \/ GetValidToken
    \/ \E c \in 1..MaxCalls : WaiterResumes(c)
    \/ \E c \in 1..MaxCalls : CallSettles(c)
    \/ \E f \in 1..MaxCalls : SessionTokenArrives(f)
    \/ \E f \in 1..MaxCalls : SessionTokenRejected(f)
    \/ \E f \in 1..MaxCalls : FetchTimesOut(f)
    \/ \E f \in 1..MaxCalls : ClearTimerFires(f)
    \/ UrlTokenExpires

SpecToken == InitToken /\ [][NextToken]_vars

\* timers fire and continuations of settled promises run; getSessionToken
\* itself need never respond
SpecTokenFair ==
    /\ InitToken
    /\ [][NextToken]_vars
    /\ \A f \in 1..MaxCalls : WF_vars(FetchTimesOut(f))
    /\ \A f \in 1..MaxCalls : WF_vars(ClearTimerFires(f))
    /\ \A c \in 1..MaxCalls : WF_vars(WaiterResumes(c))
    /\ \A c \in 1..MaxCalls : WF_vars(CallSettles(c))

(***************************************************************************)
(* Properties of getValidToken                                             *)
(***************************************************************************)
\* the fetches whose getSessionToken call has been made and that have not
\* settled
FetchesInFlight == {f \in 1..Len(fetches) : fetches[f].state = "pending"}

\* C17: at most one token fetch started by getValidToken is in flight at any
\* time.
C17_AtMostOneFetchInFlight == Cardinality(FetchesInFlight) <= 1

CallMade(c) == c <= Len(calls)

CallDone(c) == c <= Len(calls) /\ calls[c].pc = "done"

FetchSettled(f) == f <= Len(fetches) /\ fetches[f].state # "pending"

ClearsSettledFetchOnly ==
    (tokenFetchPromise # Null /\ tokenFetchPromise' = Null) =>
        fetches[tokenFetchPromise.fetch].state # "pending"

\* C18: every getValidToken call eventually settles, also when
\* getSessionToken never responds; after a fetch has settled
\* tokenFetchPromise is eventually cleared; and clearing never discards a
\* fetch that is still in flight.
C18_SettlesAndClears ==
    /\ \A c \in 1..MaxCalls : [](CallMade(c) => <>CallDone(c))
    /\ \A f \in 1..MaxCalls : [](FetchSettled(f) => <>(tokenFetchPromise = Null))
    /\ [][ClearsSettledFetchOnly]_vars

(***************************************************************************)
(* App: the effect that polls /auth/sync-status (App.tsx, AppContent).      *)
(* Every run of the effect is a session with its own isCancelled,           *)
(* checkInterval and timeoutId; a session waits for App Bridge, then polls. *)
(* Under StrictMode the effect is run, cleaned up and run again before any  *)
(* callback of the first run; the state of the component and prevStatusRef  *)
(* are those of the one component.                                          *)
(***************************************************************************)
\* StrictMode runs the effects of a mounting component twice
EffectRuns == 2

SyncStatuses == {"pending", "in_progress", "completed", "failed", "not_found"}

ActiveStatuses == {"pending", "in_progress"}

\* how the service's sync goes on
NextStatuses(status) ==
    CASE status = "not_found" -> {"pending"}
      [] status = "pending" -> {"in_progress", "failed"}
      [] status = "in_progress" -> {"completed", "failed"}
      [] OTHER -> {}

\* the subscription statuses the billing endpoint answers with
SubscriptionStatuses == {"ACTIVE", "CANCELLED", ""}

\* the tabs of the page, by index
TabIds == <<"analytics", "sku", "what-if", "cogs", "forecasts", "customers", "attribution">>

\* the component as constructed, before the effect runs
InitSync ==
    /\ InitPriceIdle
    /\ InitStatsIdle
    /\ InitPageIdle
    /\ InitScenarioIdle
    /\ InitTokenIdle
    /\ InitRankIdle
    /\ InitGateIdle
    /\ hasShopParam \in BOOLEAN
    /\ syncStatus = Null
    /\ appIsLoading = TRUE
    /\ showBanner = FALSE
    /\ prevStatusRef = Null
    /\ sessions = <<>>
    /\ serverStatus \in SyncStatuses
    /\ windowShopify \in BOOLEAN
    /\ observedHistory = [first |-> Null, seen |-> {}]
    /\ shop = Null
    /\ subscriptionStatus = Null
    /\ selectedTab = 0

\* the latest run of the effect has not been cleaned up
Live == sessions # <<>> /\ ~sessions[Len(sessions)].isCancelled

\* prevStatusRef.current is status
Was(status) == prevStatusRef # Null /\ prevStatusRef.status = status

BannerAfter_AnyOutcome(now) == now \in ActiveStatuses \cup {"completed", "failed"}

\* the banner rule of checkSyncStatus
BannerAfter(now) ==
    IF now \in ActiveStatuses THEN TRUE
    ELSE IF (Was("pending") \/ Was("in_progress")) /\ now \in {"completed", "failed"}
    THEN TRUE
    ELSE FALSE

BatchDue_OnFailed(now) == now \in {"completed", "failed"} /\ ~Was("completed")

\* data.status === 'completed' && was !== 'completed'
BatchDue(now) == now = "completed" /\ ~Was("completed")

\* the callbacks of the earlier runs have not run yet
RunsUntouched ==
    \A s \in 1..Len(sessions) : sessions[s].stage \in {"waiting", "ready"}

\* the effect runs: without a shop parameter it only ends loading; with one
\* it sets the shop, fetches the subscription status and waits for App Bridge
Mount ==
    /\ ~Live
    /\ Len(sessions) < EffectRuns
    /\ ~hasShopParam \/ RunsUntouched
    /\ IF hasShopParam
       THEN /\ sessions' = Append(sessions,
                  [isCancelled |-> FALSE,
                   stage |-> IF windowShopify THEN "ready" ELSE "waiting",
                   checkInterval |-> ~windowShopify, timeoutId |-> ~windowShopify,
                   starts |-> 0, batches |-> 0,
                   earlySub |-> "pending", batchSub |-> "none"])
            /\ shop' = [domain |-> "shop"]
            /\ UNCHANGED appIsLoading
       ELSE /\ sessions' = Append(sessions,
                  [isCancelled |-> FALSE, stage |-> "stopped",
                   checkInterval |-> FALSE, timeoutId |-> FALSE,
                   starts |-> 0, batches |-> 0,
                   earlySub |-> "none", batchSub |-> "none"])
            /\ appIsLoading' = FALSE
            /\ UNCHANGED shop
    /\ UNCHANGED <<hasShopParam, syncStatus, showBanner, prevStatusRef, serverStatus,
                   windowShopify, observedHistory, subscriptionStatus, selectedTab>>
    /\ UNCHANGED <<priceVars, statsVars, pageVars, scenarioVars, tokenVars, rankVars,
                   gateVars>>

\* the cleanup of the effect
Cleanup ==
    /\ Live
    /\ sessions' = [sessions EXCEPT ![Len(sessions)].isCancelled = TRUE,
                                    ![Len(sessions)].checkInterval = FALSE,
                                    ![Len(sessions)].timeoutId = FALSE]
    /\ UNCHANGED <<hasShopParam, syncStatus, appIsLoading, showBanner, prevStatusRef,
                   serverStatus, windowShopify, observedHistory, paywallVars>>
    /\ UNCHANGED <<priceVars, statsVars, pageVars, scenarioVars, tokenVars, rankVars,
                   gateVars>>

\* App Bridge sets window.shopify
AppBridgeLoads ==
    /\ ~windowShopify
    /\ windowShopify' = TRUE
    /\ UNCHANGED <<hasShopParam, syncStatus, appIsLoading, showBanner, prevStatusRef,
                   sessions, serverStatus, observedHistory, paywallVars>>
    /\ UNCHANGED <<priceVars, statsVars, pageVars, scenarioVars, tokenVars, rankVars,
                   gateVars>>

AfterTimeout_IntervalKept(session) ==
    [session EXCEPT !.timeoutId = FALSE, !.stage = "ready"]

\* the 5 s timeout of waitForAppBridge: it clears the interval and resolves
AfterTimeout(session) ==
    [session EXCEPT !.checkInterval = FALSE, !.timeoutId = FALSE, !.stage = "ready"]

\* a 100 ms check of waitForAppBridge that sees window.shopify: it clears the
\* interval and the timeout and resolves
AppBridgeCheck(s) ==
    /\ s \in 1..Len(sessions)
    /\ sessions[s].checkInterval
    /\ windowShopify
    /\ sessions' = [sessions EXCEPT ![s].checkInterval = FALSE, ![s].timeoutId = FALSE,
                                    ![s].stage = "ready"]
    /\ UNCHANGED <<hasShopParam, syncStatus, appIsLoading, showBanner, prevStatusRef,
                   serverStatus, windowShopify, observedHistory, paywallVars>>
    /\ UNCHANGED <<priceVars, statsVars, pageVars, scenarioVars, tokenVars, rankVars,
                   gateVars>>

AppBridgeTimeout(s) ==
    /\ s \in 1..Len(sessions)
    /\ sessions[s].timeoutId
    /\ sessions' = [sessions EXCEPT ![s] = AfterTimeout(@)]
    /\ UNCHANGED <<hasShopParam, syncStatus, appIsLoading, showBanner, prevStatusRef,
                   serverStatus, windowShopify, observedHistory, paywallVars>>
    /\ UNCHANGED <<priceVars, statsVars, pageVars, scenarioVars, tokenVars, rankVars,
                   gateVars>>

StageAfterEntry_Unchecked(s) == "fetching"

\* checkSyncStatus is entered: it returns when cancelled, else it fetches
StageAfterEntry(s) == IF sessions[s].isCancelled THEN "returned" ELSE "fetching"

\* the callback of waitForAppBridge().then: checkSyncStatus unless cancelled
AppBridgeReady(s) ==
    /\ s \in 1..Len(sessions)
    /\ sessions[s].stage = "ready"
    /\ sessions' = IF sessions[s].isCancelled
                   THEN [sessions EXCEPT ![s].stage = "returned"]
                   ELSE [sessions EXCEPT ![s].stage = StageAfterEntry(s),
                                         ![s].starts = @ + 1]
    /\ UNCHANGED <<hasShopParam, syncStatus, appIsLoading, showBanner, prevStatusRef,
                   serverStatus, windowShopify, observedHistory, paywallVars>>
    /\ UNCHANGED <<priceVars, statsVars, pageVars, scenarioVars, tokenVars, rankVars,
                   gateVars>>

\* the sync-status response arrives with the status the service reports
PollAnswered(s) ==
    /\ s \in 1..Len(sessions)
    /\ sessions[s].stage = "fetching"
    /\ IF sessions[s].isCancelled
       THEN /\ sessions' = [sessions EXCEPT ![s].stage = "discarded"]
            /\ UNCHANGED <<syncStatus, appIsLoading, showBanner, prevStatusRef,
                           observedHistory>>
       ELSE /\ syncStatus' = [status |-> serverStatus]
            /\ appIsLoading' = FALSE
            /\ showBanner' = BannerAfter(serverStatus)
            /\ prevStatusRef' = [status |-> serverStatus]
            /\ observedHistory' =
                  [first |-> IF observedHistory.first = Null
                             THEN [status |-> serverStatus]
                             ELSE observedHistory.first,
                   seen |-> observedHistory.seen \cup {serverStatus}]
            /\ sessions' =
                  IF BatchDue(serverStatus)
                  THEN [sessions EXCEPT ![s].stage = "batch", ![s].batches = @ + 1,
                                        ![s].batchSub = "pending"]
                  ELSE IF serverStatus \in ActiveStatuses
                  THEN [sessions EXCEPT ![s].stage = "timer"]
                  ELSE [sessions EXCEPT ![s].stage = "stopped"]
    /\ UNCHANGED <<hasShopParam, serverStatus, windowShopify, paywallVars>>
    /\ UNCHANGED <<priceVars, statsVars, pageVars, scenarioVars, tokenVars, rankVars,
                   gateVars>>

\* the request fails or its response is not ok: the catch branch
PollFails(s) ==
    /\ s \in 1..Len(sessions)
    /\ sessions[s].stage = "fetching"
    /\ sessions' = [sessions EXCEPT
                       ![s].stage = IF sessions[s].isCancelled THEN "discarded"
                                    ELSE "stopped"]
    /\ appIsLoading' = IF sessions[s].isCancelled THEN appIsLoading ELSE FALSE
    /\ UNCHANGED <<hasShopParam, syncStatus, showBanner, prevStatusRef, serverStatus,
                   windowShopify, observedHistory, paywallVars>>
    /\ UNCHANGED <<priceVars, statsVars, pageVars, scenarioVars, tokenVars, rankVars,
                   gateVars>>

\* the batch of data fetches has settled, the subscription status among
\* them; the status was completed, so no poll is scheduled
BatchSettles(s) ==
    /\ s \in 1..Len(sessions)
    /\ sessions[s].stage = "batch"
    /\ sessions[s].batchSub \in {"done", "failed"}
    /\ sessions' = [sessions EXCEPT ![s].stage = "stopped"]
    /\ UNCHANGED <<hasShopParam, syncStatus, appIsLoading, showBanner, prevStatusRef,
                   serverStatus, windowShopify, observedHistory, paywallVars>>
    /\ UNCHANGED <<priceVars, statsVars, pageVars, scenarioVars, tokenVars, rankVars,
                   gateVars>>

\* the 2 s timer fires and calls checkSyncStatus
TimerFires(s) ==
    /\ s \in 1..Len(sessions)
    /\ sessions[s].stage = "timer"
    /\ sessions' = [sessions EXCEPT ![s].stage = StageAfterEntry(s)]
    /\ UNCHANGED <<hasShopParam, syncStatus, appIsLoading, showBanner, prevStatusRef,
                   serverStatus, windowShopify, observedHistory, paywallVars>>
    /\ UNCHANGED <<priceVars, statsVars, pageVars, scenarioVars, tokenVars, rankVars,
                   gateVars>>

\* the sync of the service moves on
ServerAdvances ==
    /\ serverStatus' \in NextStatuses(serverStatus)
    /\ UNCHANGED <<hasShopParam, syncStatus, appIsLoading, showBanner, prevStatusRef,
                   sessions, windowShopify, observedHistory, paywallVars>>
    /\ UNCHANGED <<priceVars, statsVars, pageVars, scenarioVars, tokenVars, rankVars,
                   gateVars>>

\* renderSyncBanner draws a banner
BannerRendered == ~appIsLoading /\ syncStatus # Null /\ showBanner

\* onDismiss of the success and the failure banner
DismissBanner ==
    /\ BannerRendered
    /\ syncStatus.status \in {"completed", "failed"}
    /\ showBanner' = FALSE
    /\ UNCHANGED <<hasShopParam, syncStatus, appIsLoading, prevStatusRef, sessions,
                   serverStatus, windowShopify, observedHistory, paywallVars>>
    /\ UNCHANGED <<priceVars, statsVars, pageVars, scenarioVars, tokenVars, rankVars,
                   gateVars>>

SubscriptionAfterError_Kept(status) == status

\* the catch branch of fetchSubscriptionStatus
SubscriptionAfterError(status) == Null

\* a subscription-status request of session s settles: the one of the
\* effect (which = "earlySub") or the one of the batch ("batchSub")
FetchSubscriptionStatusSettles(s, which, reply) ==
    /\ s \in 1..Len(sessions)
    /\ sessions[s][which] = "pending"
    /\ sessions' = [sessions EXCEPT ![s][which] = IF reply.ok THEN "done" ELSE "failed"]
    /\ subscriptionStatus' = IF reply.ok THEN [status |-> reply.data.subscription_status]
                             ELSE SubscriptionAfterError(subscriptionStatus)
    /\ UNCHANGED <<hasShopParam, syncStatus, appIsLoading, showBanner, prevStatusRef,
                   serverStatus, windowShopify, observedHistory, shop, selectedTab>>
    /\ UNCHANGED <<priceVars, statsVars, pageVars, scenarioVars, tokenVars, rankVars,
                   gateVars>>

\* the billing endpoint answers with a subscription status
SubscriptionAnswered(s, which, status) ==
    FetchSubscriptionStatusSettles(s, which,
        [ok |-> TRUE, data |-> [subscription_status |-> status]])

\* the request fails
SubscriptionLost(s, which) ==
    FetchSubscriptionStatusSettles(s, which, NetworkFailure)

\* the Tabs are drawn
TabsVisible == syncStatus # Null /\ syncStatus.status = "completed"

\* handleTabChange
SelectTab(t) ==
    /\ TabsVisible
    /\ t # selectedTab
    /\ selectedTab' = t
    /\ UNCHANGED <<pollVars, shop, subscriptionStatus>>
    /\ UNCHANGED <<priceVars, statsVars, pageVars, scenarioVars, tokenVars, rankVars,
                   gateVars>>

IsSubscriptionActive_ActiveOnly ==
    subscriptionStatus # Null /\ subscriptionStatus.status = "ACTIVE"

\* !subscriptionStatus || subscriptionStatus === 'ACTIVE'
IsSubscriptionActive ==
    \/ subscriptionStatus = Null
    \/ subscriptionStatus.status = ""
    \/ subscriptionStatus.status = "ACTIVE"

\* what a tab that needs the shop and the subscription draws
RenderShopPaywalled ==
    IF shop = Null THEN "nothing"
    ELSE IF ~IsSubscriptionActive THEN "lock"
    ELSE "page"

\* what a tab that needs the subscription draws
RenderPaywalled == IF ~IsSubscriptionActive THEN "lock" ELSE "page"

\* the content of tab t: the render function the main return selects
RenderTab(t) ==
    CASE TabIds[t + 1] = "sku" -> RenderPaywalled
      [] TabIds[t + 1] = "what-if" -> RenderPaywalled
      [] TabIds[t + 1] = "forecasts" -> RenderShopPaywalled
      [] TabIds[t + 1] = "attribution" -> RenderShopPaywalled
      [] TabIds[t + 1] = "cogs" -> IF shop = Null THEN "nothing" ELSE "page"
      [] OTHER -> "page"

NextSync ==
    \/ Mount
    \/ Cleanup
    \/ AppBridgeLoads
    \/ \E s \in 1..EffectRuns : AppBridgeCheck(s)
    \/ \E s \in 1..EffectRuns : AppBridgeTimeout(s)
    \/ \E s \in 1..EffectRuns : AppBridgeReady(s)
    \/ \E s \in 1..EffectRuns : PollAnswered(s)
    \/ \E s \in 1..EffectRuns : PollFails(s)
    \/ \E s \in 1..EffectRuns : BatchSettles(s)
    \/ \E s \in 1..EffectRuns : TimerFires(s)
    \/ \E s \in 1..EffectRuns, which \in {"earlySub", "batchSub"},
          status \in SubscriptionStatuses : SubscriptionAnswered(s, which, status)
    \/ \E s \in 1..EffectRuns, which \in {"earlySub", "batchSub"} :
          SubscriptionLost(s, which)
    \/ \E t \in 0..(Len(TabIds) - 1) : SelectTab(t)
    \/ DismissBanner
    \/ ServerAdvances

SpecSync == InitSync /\ [][NextSync]_vars

\* timers fire, requests settle one way or the other, and promise callbacks
\* run; nothing obliges the component to unmount, App Bridge to load or the
\* sync to move
SpecSyncFair ==
    /\ InitSync
    /\ [][NextSync]_vars
    /\ \A s \in 1..EffectRuns : WF_vars(AppBridgeCheck(s))
    /\ \A s \in 1..EffectRuns : WF_vars(AppBridgeTimeout(s))
    /\ \A s \in 1..EffectRuns : WF_vars(AppBridgeReady(s))
    /\ \A s \in 1..EffectRuns : WF_vars(PollAnswered(s) \/ PollFails(s))
    /\ \A s \in 1..EffectRuns : WF_vars(BatchSettles(s))
    /\ \A s \in 1..EffectRuns : WF_vars(TimerFires(s))
    /\ \A s \in 1..EffectRuns :
          WF_vars(\E status \in SubscriptionStatuses :
                     SubscriptionAnswered(s, "batchSub", status) \/ SubscriptionLost(s, "batchSub"))

(***************************************************************************)
(* Properties of the polling                                               *)
(***************************************************************************)
LastObservedActive == Was("pending") \/ Was("in_progress")

PollInFlight ==
    \E s \in 1..Len(sessions) : sessions[s].stage = "fetching" /\ ~sessions[s].isCancelled

\* session s issues a poll in this step
IssuesPoll(s) ==
    /\ s <= Len(sessions)
    /\ sessions[s].stage # "fetching"
    /\ sessions'[s].stage = "fetching"

PollsOnlyWhileActive ==
    \A s \in 1..EffectRuns :
        IssuesPoll(s) => (sessions[s].stage = "ready" \/ LastObservedActive)

\* C19: while the effect is live and the status observed last is pending or
\* in_progress, another poll is always eventually issued, so that a sync
\* that has completed is eventually observed as completed; and a session
\* polls again only after it observed pending or in_progress.
C19_PollsUntilTerminal ==
    /\ []((Live /\ LastObservedActive) => <>(PollInFlight \/ ~Live))
    /\ []((Live /\ LastObservedActive /\ serverStatus = "completed") =>
             <>(Was("completed") \/ ~Live))
    /\ [][PollsOnlyWhileActive]_vars

\* session s starts the batch of data fetches in this step
StartsBatch(s) ==
    /\ s <= Len(sessions)
    /\ sessions'[s].batches > sessions[s].batches

BatchOnlyOnCompletion ==
    \A s \in 1..EffectRuns :
        StartsBatch(s) =>
            /\ sessions[s].stage = "fetching"
            /\ serverStatus = "completed"
            /\ prevStatusRef' = [status |-> "completed"]
            /\ ~Was("completed")

\* C20: the batch of chart, orders, customers and subscription fetches
\* starts only in a poll that observes completed when the status observed
\* before was not completed, and at most once in a session.
C20_BatchOncePerSession ==
    /\ [][BatchOnlyOnCompletion]_vars
    /\ [](\A s \in 1..Len(sessions) : sessions[s].batches <= 1)

\* a session awaits its batch after an earlier poll had observed the sync
\* in progress
C20_Witness ==
    \E s \in 1..Len(sessions) :
        sessions[s].batches = 1 /\ sessions[s].stage = "batch" /\ showBanner

Observed(status) == syncStatus # Null /\ syncStatus.status = status

\* C21: the banner flag is set while the status observed last is pending or
\* in_progress; with completed or failed observed it is set only if pending
\* or in_progress was observed before; it is never set when the first status
\* observed was completed, failed or not_found, nor with not_found observed.
C21_BannerRule ==
    /\ (Observed("pending") \/ Observed("in_progress")) => showBanner
    /\ ((Observed("completed") \/ Observed("failed")) /\ showBanner) =>
          observedHistory.seen \cap ActiveStatuses # {}
    /\ Observed("not_found") => ~showBanner
    /\ (observedHistory.first # Null /\ observedHistory.first.status \notin ActiveStatuses) =>
          ~showBanner

\* the banner of a sync that was seen in progress and then completed
C21_Witness ==
    /\ BannerRendered
    /\ Observed("completed")
    /\ observedHistory.first = [status |-> "in_progress"]

\* a step of session s, cancelled before it
CancelledStep(s) ==
    /\ s <= Len(sessions)
    /\ sessions[s].isCancelled
    /\ sessions'[s] # sessions[s]

CancelledRunInert ==
    \A s \in 1..EffectRuns :
        CancelledStep(s) =>
            /\ sessions'[s].stage \in {"fetching", "timer", "batch"} =>
                  sessions'[s].stage = sessions[s].stage
            /\ sessions'[s].batches = sessions[s].batches
            /\ sessions'[s].starts = sessions[s].starts
            /\ UNCHANGED <<syncStatus, showBanner, appIsLoading, prevStatusRef>>

\* C22: a run of the effect that was cleaned up issues no sync-status
\* request, sets neither syncStatus nor showBanner nor isLoading and starts
\* no batch of data fetches, whatever timer or response was pending.
C22_CancelledRunInert == [][CancelledRunInert]_vars

\* a poll timer that was pending at the cleanup has fired, and the call it
\* made has returned at its entry
C22_Witness ==
    \E s \in 1..Len(sessions) :
        /\ sessions[s].isCancelled
        /\ sessions[s].stage = "returned"
        /\ sessions[s].starts = 1
        /\ syncStatus # Null

\* session s gets past waitForAppBridge in this step
Resolves(s) ==
    /\ s <= Len(sessions)
    /\ sessions[s].stage = "waiting"
    /\ sessions'[s].stage # "waiting"

ResolvesOnCheckOrTimeout ==
    \A s \in 1..EffectRuns :
        Resolves(s) =>
            /\ (sessions[s].checkInterval /\ windowShopify) \/ sessions[s].timeoutId
            /\ sessions'[s].stage = "ready"

NoTimerAfterResolve ==
    \A s \in 1..Len(sessions) :
        sessions[s].stage # "waiting" => ~sessions[s].checkInterval /\ ~sessions[s].timeoutId

StartedOrCancelled(s) ==
    s <= Len(sessions) /\ (sessions[s].starts = 1 \/ sessions[s].isCancelled)

Mounted(s) == s <= Len(sessions) /\ hasShopParam

\* C23: a run of the effect gets past waitForAppBridge only in a check that
\* sees window.shopify or when the timeout fires; unless it is cleaned up
\* first it starts checkSyncStatus, once and only once, also when App Bridge
\* never loads; and neither its interval nor its timeout is active once it
\* is past the wait.
C23_WaitForAppBridge ==
    /\ [][ResolvesOnCheckOrTimeout]_vars
    /\ [](NoTimerAfterResolve)
    /\ [](\A s \in 1..Len(sessions) : sessions[s].starts <= 1)
    /\ \A s \in 1..EffectRuns : [](Mounted(s) => <>StartedOrCancelled(s))

\* checkSyncStatus was started although App Bridge has not loaded
C23_Witness ==
    /\ ~windowShopify
    /\ \E s \in 1..Len(sessions) : sessions[s].starts = 1 /\ ~sessions[s].isCancelled

PaywalledTabs == {"sku", "what-if", "forecasts", "attribution"}

PaywallFollowsSubscription ==
    (TabsVisible /\ TabIds[selectedTab + 1] \in PaywalledTabs) =>
        IF \/ subscriptionStatus = Null
           \/ subscriptionStatus.status \in {"", "ACTIVE"}
        THEN RenderTab(selectedTab) = "page"
        ELSE RenderTab(selectedTab) = "lock"

FailedRequestOpens ==
    \A s \in 1..EffectRuns : \A which \in {"earlySub", "batchSub"} :
        (s <= Len(sessions) /\ sessions[s][which] = "pending"
            /\ sessions'[s][which] = "failed") => subscriptionStatus' = Null

\* C25: a paywalled tab draws its page exactly when subscriptionStatus is
\* null, empty or ACTIVE, and the lock view otherwise; a subscription-status
\* request that fails sets subscriptionStatus to null.
C25_Paywall ==
    /\ [](PaywallFollowsSubscription)
    /\ [][FailedRequestOpens]_vars

\* the Attribution tab is open after a failed request replaced CANCELLED
C25_Witness ==
    /\ TabsVisible
    /\ TabIds[selectedTab + 1] = "attribution"
    /\ subscriptionStatus = Null
    /\ \E s \in 1..Len(sessions) :
          sessions[s].earlySub = "done" /\ sessions[s].batchSub = "failed"

(***************************************************************************)
(* AuthGate (App.tsx): the effect asks /auth/check and either lets the      *)
(* children render or sends the browser to /auth/start.  The effect has no  *)
(* cleanup, so each of its runs has its own request.                        *)
(***************************************************************************)
\* how an /auth/check request can end
AuthCheckOutcomes == {"ok", "unauthorized", "unexpected", "threw"}

\* AuthGate as constructed, for the parameters of the page URL
InitGate ==
    /\ InitPriceIdle
    /\ InitStatsIdle
    /\ InitPageIdle
    /\ InitScenarioIdle
    /\ InitTokenIdle
    /\ InitRankIdle
    /\ hasShopParam \in BOOLEAN
    /\ syncStatus = Null
    /\ appIsLoading = TRUE
    /\ showBanner = FALSE
    /\ prevStatusRef = Null
    /\ sessions = <<>>
    /\ serverStatus = "not_found"
    /\ windowShopify = FALSE
    /\ observedHistory = [first |-> Null, seen |-> {}]
    /\ shop = Null
    /\ subscriptionStatus = Null
    /\ selectedTab = 0
    /\ isReady = FALSE
    /\ hasToken = FALSE
    /\ authChecks = <<>>
    /\ hasHostParam \in BOOLEAN
    /\ hasWindowTop \in BOOLEAN
    /\ topLocation = Null
    /\ ownLocation = Null

\* the URL of /auth/start, with the host when the page URL has one
AuthUrl == [path |-> "/auth/start", shop |-> TRUE, host |-> hasHostParam]

\* what AuthGate returns
GateRenders ==
    IF ~isReady THEN "loading"
    ELSE IF ~hasToken THEN "nothing"
    ELSE "children"

\* a run of the effect: without a shop the gate opens, with one it asks
\* /auth/check
GateEffect ==
    /\ Len(authChecks) < EffectRuns
    /\ IF hasShopParam
       THEN /\ authChecks' = Append(authChecks, "pending")
            /\ UNCHANGED <<isReady, hasToken>>
       ELSE /\ authChecks' = Append(authChecks, "skipped")
            /\ hasToken' = TRUE
            /\ isReady' = TRUE
    /\ UNCHANGED <<hasHostParam, hasWindowTop, topLocation, ownLocation>>
    /\ UNCHANGED <<priceVars, statsVars, pageVars, scenarioVars, tokenVars, rankVars,
                   pollVars, paywallVars>>

OpensGate_OnAnyAnswer(outcome) == outcome # "threw"

\* the outcomes after which the gate sets hasToken and isReady
OpensGate(outcome) == outcome \in {"ok", "unexpected"}

\* request i ends: res.ok, status 401, another status, or an exception
AuthCheckSettles(i, outcome) ==
    /\ i \in 1..Len(authChecks)
    /\ authChecks[i] = "pending"
    /\ authChecks' = [authChecks EXCEPT ![i] = outcome]
    /\ IF OpensGate(outcome)
       THEN /\ hasToken' = TRUE
            /\ isReady' = TRUE
            /\ UNCHANGED <<topLocation, ownLocation>>
       ELSE /\ IF hasWindowTop
               THEN topLocation' = AuthUrl /\ UNCHANGED ownLocation
               ELSE ownLocation' = AuthUrl /\ UNCHANGED topLocation
            /\ UNCHANGED <<isReady, hasToken>>
    /\ UNCHANGED <<hasHostParam, hasWindowTop>>
    /\ UNCHANGED <<priceVars, statsVars, pageVars, scenarioVars, tokenVars, rankVars,
                   pollVars, paywallVars>>

NextGate ==
    \/ GateEffect
    \/ \E i \in 1..EffectRuns, outcome \in AuthCheckOutcomes : AuthCheckSettles(i, outcome)

SpecGate == InitGate /\ [][NextGate]_vars

Turned(i) == i <= Len(authChecks) /\ authChecks[i] \in {"unauthorized", "threw"}

Passed(i) == i <= Len(authChecks) /\ authChecks[i] \in {"ok", "unexpected", "skipped"}

SentToAuthStart == topLocation = AuthUrl \/ ownLocation = AuthUrl

\* C24: once /auth/check has answered 401 or the request has thrown, the
\* gate has sent the browser to /auth/start and never renders its children;
\* it renders its children only after /auth/check succeeded or answered
\* another status than 401, or without a shop parameter.
C24_GateStaysShut ==
    /\ (\E i \in 1..EffectRuns : Turned(i)) =>
          (SentToAuthStart /\ GateRenders = "loading")
    /\ GateRenders = "children" => \E i \in 1..EffectRuns : Passed(i)

(***************************************************************************)
(* What-If page: the debounced price preview.  Time passes in steps; a      *)
(* timer is due when it is DebounceMs old and fires before more time        *)
(* passes.                                                                 *)
(***************************************************************************)
\* the steps in which time passes, in ms
TickSample == {100, 150}

\* the values the price controls are changed to
PreviewMultiplierSample == {85, 100, 115} \cap PriceMultiplierValues
PreviewElasticitySample == {-80} \cap PriceElasticityValues

MinOfTwo(a, b) == IF a < b THEN a ELSE b

\* the page after the mount effects: the debounce timer of the mount is set
InitPreview == InitScenario

\* d ms pass
Tick(d) ==
    /\ \A t \in debounceTimers : t.age < DebounceMs
    /\ debounceTimers # {} \/ sinceChange < DebounceMs
    /\ debounceTimers' = {[t EXCEPT !.age = MinOfTwo(@ + d, DebounceMs)] : t \in debounceTimers}
    /\ sinceChange' = MinOfTwo(sinceChange + d, DebounceMs)
    /\ UNCHANGED <<previewRequests, previewInFlight, pricePreview, isLoadingPreview>>
    /\ UNCHANGED <<sliderVars, forecastDays, numSimulations, simulation, isSimulating,
                   simulateInFlight, origin, sentOrigin, simulationAtCall, lastOutcome,
                   edits>>
    /\ UNCHANGED <<priceVars, statsVars, pageVars, tokenVars, syncVars, rankVars>>

\* the query of the preview request for the slider values of a timer
PreviewRequest(t) ==
    [price_multiplier |-> FDiv(t.multiplier, 100), elasticity |-> FDiv(t.elasticity, 100)]

\* a due timer fires: fetchPricePreview clears the preview when the
\* multiplier is 1.0 and issues a request otherwise
DebounceFires ==
    /\ \E t \in debounceTimers :
          /\ t.age >= DebounceMs
          /\ debounceTimers' = debounceTimers \ {t}
          /\ IF PreviewRequest(t).price_multiplier = FromInt(1)
             THEN /\ pricePreview' = Null
                  /\ UNCHANGED <<previewRequests, previewInFlight, isLoadingPreview>>
             ELSE /\ isLoadingPreview' = TRUE
                  /\ previewRequests' = Append(previewRequests, PreviewRequest(t))
                  /\ previewInFlight' = previewInFlight \cup {Len(previewRequests) + 1}
                  /\ UNCHANGED pricePreview
    /\ UNCHANGED sinceChange
    /\ UNCHANGED <<sliderVars, forecastDays, numSimulations, simulation, isSimulating,
                   simulateInFlight, origin, sentOrigin, simulationAtCall, lastOutcome,
                   edits>>
    /\ UNCHANGED <<priceVars, statsVars, pageVars, tokenVars, syncVars, rankVars>>

\* the preview the service computes for a request, by the inputs it is for
PreviewFor(request) ==
    [ok |-> TRUE, data |-> [price_multiplier |-> request.price_multiplier,
                            elasticity |-> request.elasticity]]

\* request i settles: the preview is stored, or cleared after a failure
FetchPricePreviewSettles(i, reply) ==
    /\ i \in previewInFlight
    /\ LET r == AuthenticatedFetch(reply)
       IN  pricePreview' = IF r.thrown THEN Null ELSE r.data
    /\ isLoadingPreview' = FALSE
    /\ previewInFlight' = previewInFlight \ {i}
    /\ UNCHANGED <<debounceTimers, sinceChange, previewRequests>>
    /\ UNCHANGED <<sliderVars, forecastDays, numSimulations, simulation, isSimulating,
                   simulateInFlight, origin, sentOrigin, simulationAtCall, lastOutcome,
                   edits>>
    /\ UNCHANGED <<priceVars, statsVars, pageVars, tokenVars, syncVars, rankVars>>

PreviewAnswered(i) == FetchPricePreviewSettles(i, PreviewFor(previewRequests[i]))

PreviewLost(i) == FetchPricePreviewSettles(i, NetworkFailure)

NextPreview ==
    \/ \E v \in PreviewMultiplierSample : SetPriceMultiplier(v)
    \/ \E v \in PreviewElasticitySample : SetPriceElasticity(v)
    \/ \E i \in 1..Len(presets) : LoadPreset(i)
    \/ ResetToBaseline
    \/ \E d \in TickSample : Tick(d)
    \/ DebounceFires
    \/ \E i \in 1..(MaxEdits + 1) : PreviewAnswered(i)
    \/ \E i \in 1..(MaxEdits + 1) : PreviewLost(i)

SpecPreview == InitPreview /\ [][NextPreview]_vars

\* a preview request is issued in this step
IssuesPreview == Len(previewRequests') > Len(previewRequests)

IssuedAfterQuiet ==
    IssuesPreview =>
        /\ sinceChange >= DebounceMs
        /\ Len(previewRequests') = Len(previewRequests) + 1
        /\ previewRequests'[Len(previewRequests')] =
              [price_multiplier |-> FDiv(priceMultiplier, 100),
               elasticity |-> FDiv(priceElasticity, 100)]
        /\ debounceTimers' = {}

\* C26: a preview request is issued only when DebounceMs have passed since
\* the price multiplier or the elasticity changed last; at most one debounce
\* timer is pending; and the changes of a burst yield one request at most,
\* which carries the final values and leaves no timer behind.
C26_Debounce ==
    /\ [][IssuedAfterQuiet]_vars
    /\ [](Cardinality(debounceTimers) <= 1)

\* the one request of a burst of two changes is in flight
C26_Witness ==
    /\ Len(previewRequests) = 1
    /\ previewInFlight = {1}
    /\ edits = 2
    /\ previewRequests[1].elasticity = FDiv(FromInt(-80), 100)
    /\ previewRequests[1].price_multiplier # FDiv(FromInt(100), 100)

(***************************************************************************)
(* The id_token of the page URL: isTokenExpired and getTokenFromUrl         *)
(* (lib/api.ts).  A token is known by what its payload segment decodes to:  *)
(* nothing (atob or JSON.parse throws, or the value is null), a value       *)
(* without a numeric exp, or a value with exp in seconds.                   *)
(***************************************************************************)
\* the buffer of isTokenExpired, in ms
ExpiryBufferMs == 5000

\* the last instant of the model and the step of its clock, in ms
MaxClock == 12000
ClockStep == 500

\* exp claims, in seconds
ExpSample == {0, 6, 8, 11}

\* a number of the page: NaN or a value
NaN == [nan |-> TRUE]

\* params.get('id_token'): Null when the URL has none, "" when it is empty
IdTokens ==
    {Null, [text |-> "", payload |-> [decodes |-> FALSE]],
     [text |-> "garbled", payload |-> [decodes |-> FALSE]],
     [text |-> "no-exp", payload |-> [decodes |-> TRUE, exp |-> Null]]}
        \cup {[text |-> "jwt", payload |-> [decodes |-> TRUE, exp |-> [seconds |-> e]]] :
                  e \in ExpSample}

\* payload.exp * 1000: undefined * 1000 is NaN
ExpMillis(payload) ==
    IF payload.exp = Null THEN NaN ELSE [value |-> payload.exp.seconds * 1000]

\* now >= x, which is false for NaN
AtLeast_NaNExpired(now, x) == IF x = NaN THEN TRUE ELSE now >= x.value

AtLeast(now, x) == IF x = NaN THEN FALSE ELSE now >= x.value

\* exp - 5000
MinusBuffer(x) == IF x = NaN THEN NaN ELSE [value |-> x.value - ExpiryBufferMs]

IsTokenExpired(token, now) ==
    IF ~token.payload.decodes
    THEN TRUE
    ELSE AtLeast(now, MinusBuffer(ExpMillis(token.payload)))

\* the token when it is there, not empty and not expired
GetTokenFromUrlAt(token, now) ==
    IF token # Null /\ token.text # "" /\ ~IsTokenExpired(token, now)
    THEN token
    ELSE Null

InitUrl ==
    /\ InitPriceIdle
    /\ InitStatsIdle
    /\ InitPageIdle
    /\ InitScenarioIdle
    /\ InitSyncIdle
    /\ InitRankIdle
    /\ tokenFetchPromise = Null
    /\ fetches = <<>>
    /\ calls = <<>>
    /\ urlToken = "absent"
    /\ idToken \in IdTokens
    /\ clock \in {0, ClockStep}
    /\ urlReturn = Null

TimePasses ==
    /\ clock + ClockStep <= MaxClock
    /\ clock' = clock + ClockStep
    /\ UNCHANGED <<idToken, urlReturn>>
    /\ UNCHANGED <<tokenFetchPromise, fetches, calls, urlToken>>
    /\ UNCHANGED <<priceVars, statsVars, pageVars, scenarioVars, syncVars, rankVars>>

\* getValidToken with no fetch in progress, up to the return of the URL token
TryUrlToken ==
    /\ tokenFetchPromise = Null
    /\ urlReturn' = IF GetTokenFromUrlAt(idToken, clock) = Null
                    THEN Null
                    ELSE [token |-> GetTokenFromUrlAt(idToken, clock), at |-> clock]
    /\ urlReturn' # urlReturn
    /\ UNCHANGED <<idToken, clock>>
    /\ UNCHANGED <<tokenFetchPromise, fetches, calls, urlToken>>
    /\ UNCHANGED <<priceVars, statsVars, pageVars, scenarioVars, syncVars, rankVars>>

NextUrl ==
    \/ TimePasses
    \/ TryUrlToken

SpecUrl == InitUrl /\ [][NextUrl]_vars

\* the exp claim of a token lies more than 5 s after the instant
ExpBeyondBuffer(token, now) ==
    /\ token.payload.decodes
    /\ token.payload.exp # Null
    /\ token.payload.exp.seconds * 1000 - now > ExpiryBufferMs

\* C27: the URL token getValidToken returns has an exp claim more than 5 s
\* after the call, so it is not expired then; a token whose payload does not
\* decode is never returned.
C27_UrlTokenFresh ==
    urlReturn # Null => ExpBeyondBuffer(urlReturn.token, urlReturn.at)

\* a token whose payload does not decode is never returned
UndecodableNeverReturned ==
    urlReturn # Null => urlReturn.token.payload.decodes

====
